---- MODULE Spec2Model ----
(***************************************************************************)
(* Model of the Mercury Energy NZ integration: the historical store of the *)
(* data update coordinator (custom_components/mercury_co_nz/coordinator.py)*)
(* and the upstream client adapter (mercury_api.py).                       *)
(*                                                                         *)
(* Units.  Amounts are fixed-point integers.  A record's consumption is in *)
(* 1/1000 kWh and its cost in 1/1000 $, as the upstream sends them; what   *)
(* a summary rounds to two decimals is in 1/100, what it rounds to three   *)
(* in 1/1000; temperature is in 1/10 deg C.                                *)
(* A calendar date 'YYYY-MM-DD' is its day number: fixed-width ISO dates   *)
(* compare as strings exactly as their day numbers compare.  An upstream   *)
(* 'date' string (date followed by a time part) is the pair <<day, tod>>;  *)
(* its first ten characters are the day.  Instants are hours (UTC).        *)
(***************************************************************************)
EXTENDS Integers, Sequences, FiniteSets, TLC

VARIABLES
    pc,                   \* position of the update cycle in _async_update_data
    cycle,                \* number of update cycles started
    now_utc,              \* datetime.now(timezone.utc), in hours
    combined_data,        \* the mapping composed by the running cycle
    mercury_daily,        \* www/mercury_daily.json
    mercury_hourly,       \* www/mercury_hourly.json
    existing_daily_data,  \* what the last daily store loaded (daily_usage)
    existing_temp_data,   \* what the last daily store loaded (temperature)
    existing_hourly_data, \* what the last hourly store loaded (hourly_usage)
    json_data,            \* the document being written by write_json
    data,                 \* coordinator.data: the mapping last published
    published_cycle,      \* history: the cycle that returned it
    varies,               \* which window of the upstream response varies in this run
    all_fetched,          \* history: date -> day_info of the latest window that held it
    api_pc,               \* position of the cycle in its two fetches (mercury_api.py)
    upstream,             \* how the upstream service behaves in this run
    authenticated,        \* MercuryAPI._authenticated
    client,               \* MercuryAPI._client: "None", or is it logged in
    retry_count,          \* _retry_count of the running fetch call
    usage_returned,       \* what get_usage_data returned in the running cycle
    bill_returned,        \* what get_bill_summary returned in the running cycle
    logins,               \* history: client.login calls of the cycle's fetches
    reauthentications,    \* history: those made because tokens had expired
    operation,            \* history: the last run of each fetch operation
    auth_trace,           \* history: the authenticate() call of the last step, if any
    cycle_trace,          \* history: expiries and first authenticate() of the cycle
    setup_pc,             \* position of async_setup_entry (__init__.py)
    hass_data,            \* hass.data[DOMAIN]: the entry ids with a coordinator
    entities,             \* the sensor types handed to async_add_entities
    setup_returned,       \* what async_setup_entry returned, "none" before
    first_refresh,        \* history: how the first refresh of the entry ended
    update_pc,            \* the statement of the cycle's try block that runs
    absorbed,             \* the statements whose exception their own handler caught
    propagated,           \* the exception the cycle raised to its caller, if any
    call,                 \* a function of the component and its argument
    returned,             \* what the call returned, Pending before
    coordinators,         \* the coordinators of the host's config entries, by account
    lovelace,             \* hass.data[LOVELACE_DATA]: resource_mode and the resources
    registrations         \* the _async_register_modules tasks, by config entry

storeVars == <<pc, cycle, now_utc, combined_data, mercury_daily, mercury_hourly,
               existing_daily_data, existing_temp_data, existing_hourly_data,
               json_data, data, published_cycle, varies, all_fetched>>

apiVars == <<api_pc, upstream, authenticated, client, retry_count,
             usage_returned, bill_returned, logins, reauthentications,
             operation, auth_trace, cycle_trace>>

entryVars == <<setup_pc, hass_data, entities, setup_returned, first_refresh>>

updateVars == <<update_pc, absorbed, propagated>>

callVars == <<call, returned>>

hostVars == <<coordinators, lovelace, registrations>>

\* the variables the update cycle and the adapter leave alone
restVars == <<entryVars, updateVars, callVars, hostVars>>

vars == <<storeVars, apiVars, restVars>>

----------------------------------------------------------------------------
(* Bounds of the model *)

MaxCycles == 2
MaxWindowLen == 2

(* Program constants *)

RetentionDays == 180
RetentionHours == 168

----------------------------------------------------------------------------
(* Generic helpers *)

EmptyMap == <<>>

Range(s) == {s[i] : i \in DOMAIN s}

Reverse(s) == [i \in 1..Len(s) |-> s[Len(s) + 1 - i]]

\* sum(seq): divide and conquer keeps the evaluation depth logarithmic
RECURSIVE SumSeq(_, _, _)
SumSeq(s, lo, hi) ==
    IF lo > hi THEN 0
    ELSE IF lo = hi THEN s[lo]
    ELSE LET mid == (lo + hi) \div 2
         IN SumSeq(s, lo, mid) + SumSeq(s, mid + 1, hi)

\* round(a / b) to the nearest unit, ties to even (a >= 0, b > 0)
RoundDiv(a, b) ==
    LET q == a \div b
        r == a % b
    IN IF 2 * r < b THEN q
       ELSE IF 2 * r > b THEN q + 1
       ELSE IF q % 2 = 0 THEN q ELSE q + 1

----------------------------------------------------------------------------
(* Files of the www directory.  A file is absent, holds a complete JSON    *)
(* document, or holds the beginning of one (opened for writing and not, or *)
(* not completely, written).                                               *)

NoFile == [kind |-> "absent"]

Truncated == [kind |-> "partial"]

----------------------------------------------------------------------------
(* Daily store: _store_daily_data_json *)

\* day['date'][:10]
date_key(date) == date[1]

\* the entry built for one upstream daily record
day_info(day) ==
    [date        |-> date_key(day.date),
     consumption |-> day.consumption,
     cost        |-> day.cost,
     timestamp   |-> day.date,
     free_power  |-> IF day.has_free_power THEN day.free_power ELSE FALSE]

\* the entry built for one upstream temperature record
temp_info(temp) ==
    [date        |-> date_key(temp.date),
     temperature |-> temp.temp,
     timestamp   |-> temp.date]

\* index of the last record of the window whose date has key k
LastWithKey(window, k) ==
    CHOOSE i \in 1..Len(window) :
        /\ date_key(window[i].date) = k
        /\ \A j \in (i + 1)..Len(window) : date_key(window[j].date) # k

WindowKeys(window) == {date_key(window[i].date) : i \in 1..Len(window)}

\* UpsertDaily that leaves a date already stored as it is (setdefault)
UpsertDailyKeepExisting(existing, window) ==
    [k \in (DOMAIN existing) \cup WindowKeys(window) |->
        IF k \in DOMAIN existing THEN existing[k]
        ELSE day_info(window[LastWithKey(window, k)])]

\* UpsertDaily that adds the fetched amounts to the stored ones (+=)
UpsertDailyAdd(existing, window) ==
    [k \in (DOMAIN existing) \cup WindowKeys(window) |->
        IF k \notin WindowKeys(window) THEN existing[k]
        ELSE IF k \notin DOMAIN existing THEN day_info(window[LastWithKey(window, k)])
        ELSE [day_info(window[LastWithKey(window, k)]) EXCEPT
                !.consumption = @ + existing[k].consumption,
                !.cost = @ + existing[k].cost]]

\* UpsertDaily that leaves a date of the window to the first record that
\* names it (if date_key not in daily_data)
UpsertDailyFirstInWindow(existing, window) ==
    [k \in (DOMAIN existing) \cup WindowKeys(window) |->
        IF k \in WindowKeys(window)
        THEN day_info(window[CHOOSE i \in 1..Len(window) :
                                /\ date_key(window[i].date) = k
                                /\ \A j \in 1..(i - 1) : date_key(window[j].date) # k])
        ELSE existing[k]]

\* daily_data = existing.copy(); for day in window: daily_data[key] = day_info
\* (every key of the window ends up holding the window's last record for it)
UpsertDaily(existing, window) ==
    [k \in (DOMAIN existing) \cup WindowKeys(window) |->
        IF k \in WindowKeys(window)
        THEN day_info(window[LastWithKey(window, k)])
        ELSE existing[k]]

\* temperature_data = existing.copy(); for temp in window: ...[key] = {...}
UpsertTemp(existing, window) ==
    [k \in (DOMAIN existing) \cup WindowKeys(window) |->
        IF k \in WindowKeys(window)
        THEN temp_info(window[LastWithKey(window, k)])
        ELSE existing[k]]

\* the calendar days a date key can name, ascending
DayUniverse == [i \in 1..(RetentionDays + 3) |-> i]

\* sorted(keys) of date keys
SortedDates(keys) == SelectSeq(DayUniverse, LAMBDA d : d \in keys)

\* TrimToRetention without reverse=True: the slice keeps the oldest dates
TrimKeepOldest(store) ==
    LET sorted_dates == SortedDates(DOMAIN store)
    IN IF Len(sorted_dates) > RetentionDays
       THEN [d \in {sorted_dates[i] : i \in 1..RetentionDays} |-> store[d]]
       ELSE store

\* sorted(keys, reverse=True)[:180], applied when there are more than 180
TrimToRetention(store) ==
    LET sorted_dates == Reverse(SortedDates(DOMAIN store))
    IN IF Len(sorted_dates) > RetentionDays
       THEN [d \in {sorted_dates[i] : i \in 1..RetentionDays} |-> store[d]]
       ELSE store

\* [daily_data[date] for date in sorted(daily_data.keys())]
ListByKey(store) ==
    LET sorted_dates == SortedDates(DOMAIN store)
    IN [i \in 1..Len(sorted_dates) |-> store[sorted_dates[i]]]

\* sorted(daily_list, key=lambda x: x['date']): a stable sort leaves a list
\* that is already in order as it is
SortedByDate(list) ==
    IF \A i \in 1..(Len(list) - 1) : list[i].date <= list[i + 1].date
    THEN list
    ELSE LET dates == {list[i].date : i \in 1..Len(list)}
             first(d) == CHOOSE i \in 1..Len(list) :
                            list[i].date = d /\ \A j \in 1..(i - 1) : list[j].date # d
             sorted_dates == SortedDates(dates)
         IN [i \in 1..Len(sorted_dates) |-> list[first(sorted_dates[i])]]

NoDate == 0

\* the "summary" object of the daily document
DailySummary(daily_list) ==
    LET num_days == Len(daily_list)
        total_consumption ==
            SumSeq([i \in 1..num_days |-> daily_list[i].consumption], 1, num_days)
        total_cost ==
            SumSeq([i \in 1..num_days |-> daily_list[i].cost], 1, num_days)
    IN [total_days                |-> num_days,
        total_consumption         |-> RoundDiv(total_consumption, 10),
        total_cost                |-> RoundDiv(total_cost, 10),
        average_daily_consumption |->
            IF num_days > 0 THEN RoundDiv(total_consumption, 10 * num_days) ELSE 0,
        average_daily_cost        |->
            IF num_days > 0 THEN RoundDiv(total_cost, 10 * num_days) ELSE 0,
        cost_per_kwh              |->
            IF total_consumption > 0
            THEN RoundDiv(total_cost * 1000, total_consumption) ELSE 0,
        date_range_start          |->
            IF num_days > 0 THEN daily_list[1].date ELSE NoDate,
        date_range_end            |->
            IF num_days > 0 THEN daily_list[num_days].date ELSE NoDate]

\* load_existing_data that never finds a stored document
LoadNothing(file) == <<EmptyMap, EmptyMap>>

\* load_existing_data that takes a document it cannot parse for one that
\* holds day 0
LoadLeftover(file) ==
    IF file.kind = "json" THEN <<file.daily_usage, file.temperature>>
    ELSE <<[k \in {0} |-> [date |-> 0, consumption |-> 0, cost |-> 0,
                           timestamp |-> <<0, 0>>, free_power |-> FALSE]],
           EmptyMap>>

\* load_existing_data: (daily_usage, temperature) of the stored document, or
\* two empty maps when the file is absent or cannot be parsed
load_existing_data(file) ==
    IF file.kind = "json" THEN <<file.daily_usage, file.temperature>>
    ELSE <<EmptyMap, EmptyMap>>

\* temperature_data that starts from an empty map when the fetched data has
\* no 'temperature_history' key
TemperatureDataReset(existing_temp, fetched) ==
    IF fetched.has_temp
    THEN TrimToRetention(UpsertTemp(existing_temp, fetched.temperature_history))
    ELSE EmptyMap

\* temperature_data that keeps a stored temperature for a date it has
TemperatureDataKeepsStored(existing_temp, fetched) ==
    IF fetched.has_temp
    THEN TrimToRetention(
            [k \in (DOMAIN existing_temp) \cup WindowKeys(fetched.temperature_history) |->
                IF k \in DOMAIN existing_temp THEN existing_temp[k]
                ELSE temp_info(fetched.temperature_history[
                        LastWithKey(fetched.temperature_history, k)])])
    ELSE existing_temp

\* temperature_data = existing_temp_data.copy(); with a 'temperature_history'
\* key the window is upserted and the map trimmed, without one it stays
temperature_data(existing_temp, fetched) ==
    IF fetched.has_temp
    THEN TrimToRetention(UpsertTemp(existing_temp, fetched.temperature_history))
    ELSE existing_temp

\* does one of the two loops raise KeyError: day['date'], day['consumption']
\* and day['cost'] of every daily record are read, and temp['date'] and
\* temp['temp'] of every temperature record
DailyKeyError(fetched) ==
    \/ \E i \in 1..Len(fetched.daily_usage_history) :
          ~({"date", "consumption", "cost"} \subseteq DOMAIN fetched.daily_usage_history[i])
    \/ /\ fetched.has_temp
       /\ \E i \in 1..Len(fetched.temperature_history) :
             ~({"date", "temp"} \subseteq DOMAIN fetched.temperature_history[i])

\* the store leaves its try block with an exception before write_json
KeyErrorRaised == [kind |-> "KeyError"]

\* DailyJson with the summary computed from the merged map before the trim
DailyJsonSummaryBeforeTrim(existing_daily, existing_temp, fetched) ==
    LET merged == UpsertDaily(existing_daily, fetched.daily_usage_history)
        daily_data == TrimToRetention(merged)
    IN [kind        |-> "json",
        summary     |-> DailySummary(ListByKey(merged)),
        daily_usage |-> daily_data,
        daily_list  |-> SortedByDate(ListByKey(daily_data)),
        temperature |-> temperature_data(existing_temp, fetched)]

\* the records of a window that have all the keys the loop reads
ValidRecords(window, keys) == SelectSeq(window, LAMBDA r : keys \subseteq DOMAIN r)

\* DailyJson that skips a record it cannot read and stores the others
DailyJsonOfValidRecords(existing_daily, existing_temp, fetched) ==
    LET valid == [fetched EXCEPT
                    !.daily_usage_history = ValidRecords(@, {"date", "consumption", "cost"}),
                    !.temperature_history = ValidRecords(@, {"date", "temp"})]
        daily_data == TrimToRetention(
            UpsertDaily(existing_daily, valid.daily_usage_history))
        daily_list == ListByKey(daily_data)
    IN [kind        |-> "json",
        summary     |-> DailySummary(daily_list),
        daily_usage |-> daily_data,
        daily_list  |-> SortedByDate(daily_list),
        temperature |-> temperature_data(existing_temp, valid)]

\* json_data of _store_daily_data_json for the loaded maps and the fetched
\* data; no document when a record of a window lacks a key the loops read
DailyJson(existing_daily, existing_temp, fetched) ==
    IF DailyKeyError(fetched) THEN KeyErrorRaised
    ELSE
    LET daily_data == TrimToRetention(
            UpsertDaily(existing_daily, fetched.daily_usage_history))
        daily_list == ListByKey(daily_data)
    IN [kind        |-> "json",
        summary     |-> DailySummary(daily_list),
        daily_usage |-> daily_data,
        daily_list  |-> SortedByDate(daily_list),
        temperature |-> temperature_data(existing_temp, fetched)]

----------------------------------------------------------------------------
(* Hourly store: _store_hourly_data_json                                   *)
(*                                                                         *)
(* A datetime string is [local, tz]: the hour it names and its suffix:     *)
(* "naive" (none), "plus12" ('+12:00'), "Z", or "bad" for a string that    *)
(* datetime.fromisoformat rejects; "none" stands for a missing key and     *)
(* "empty" for the empty string.                                           *)

HKey(local, tz) == [local |-> local, tz |-> tz]

MissingKey == HKey(0, "none")

EmptyKey == HKey(0, "empty")

\* hour.get('datetime', hour.get('date', ''))
datetime_key(hour) ==
    IF hour.datetime # MissingKey THEN hour.datetime
    ELSE IF hour.date # MissingKey THEN hour.date
    ELSE EmptyKey

\* the entry built for one upstream hourly record
hour_info(hour) ==
    [datetime    |-> datetime_key(hour),
     consumption |-> hour.consumption,
     cost        |-> hour.cost,
     timestamp   |-> datetime_key(hour)]

\* the string order of two datetime keys: the digits of the local time
\* first, then the suffix ('' < '+12:00' < 'Z'); a string that is no ISO
\* datetime starts with a letter and follows every ISO datetime
SuffixRank(tz) == CASE tz = "naive" -> 0 [] tz = "plus12" -> 1 [] tz = "Z" -> 2 [] OTHER -> 3

StrLess(a, b) ==
    IF (a.tz = "bad") # (b.tz = "bad") THEN b.tz = "bad"
    ELSE \/ a.local < b.local
         \/ a.local = b.local /\ SuffixRank(a.tz) < SuffixRank(b.tz)

\* sorted(keys) of datetime keys
RECURSIVE SortedKeys(_)
SortedKeys(keys) ==
    IF keys = {} THEN <<>>
    ELSE LET least == CHOOSE a \in keys : \A b \in keys \ {a} : StrLess(a, b)
         IN <<least>> \o SortedKeys(keys \ {least})

\* does datetime.fromisoformat(key.replace('Z', '+00:00')) succeed
Parseable(key) == key.tz \in {"naive", "plus12", "Z"}

\* hour_datetime that takes a naive datetime in the host's zone (UTC+12)
NaiveAsLocal(key) ==
    CASE key.tz = "plus12" -> key.local - 12
      [] key.tz = "naive"  -> key.local - 12
      [] OTHER             -> key.local

\* the UTC instant of a parseable key; a naive datetime is taken as UTC
hour_datetime(key) ==
    CASE key.tz = "plus12" -> key.local - 12
      [] OTHER             -> key.local

\* index of the last record of the window whose key is k
LastWithHourKey(window, k) ==
    CHOOSE i \in 1..Len(window) :
        /\ datetime_key(window[i]) = k
        /\ \A j \in (i + 1)..Len(window) : datetime_key(window[j]) # k

\* the keys the loop stores: `if datetime_key:` skips the empty string
HourWindowKeys(window) ==
    {datetime_key(window[i]) : i \in 1..Len(window)} \ {EmptyKey}

\* hourly_data = existing.copy(); for hour in window: hourly_data[key] = hour_info
UpsertHourly(existing, window) ==
    [k \in (DOMAIN existing) \cup HourWindowKeys(window) |->
        IF k \in HourWindowKeys(window)
        THEN hour_info(window[LastWithHourKey(window, k)])
        ELSE existing[k]]

\* the 7-day filter: keep what is not older than the cutoff, and what
\* cannot be parsed
FilterLast7Days(hourly_data, now) ==
    LET cutoff_time == now - RetentionHours
    IN [k \in {key \in DOMAIN hourly_data :
                  ~Parseable(key) \/ hour_datetime(key) >= cutoff_time}
           |-> hourly_data[k]]

\* [hourly_data[key] for key in sorted(hourly_data.keys())]
HourListByKey(store) ==
    LET keys == SortedKeys(DOMAIN store)
    IN [i \in 1..Len(keys) |-> store[keys[i]]]

\* sorted(hourly_list, key=lambda x: x['datetime']): a stable sort leaves a
\* list that is already in order as it is
SortedByDatetime(list) ==
    IF \A i \in 1..(Len(list) - 1) : ~StrLess(list[i + 1].datetime, list[i].datetime)
    THEN list
    ELSE LET keys == SortedKeys({list[i].datetime : i \in 1..Len(list)})
             first(k) == CHOOSE i \in 1..Len(list) :
                            list[i].datetime = k /\ \A j \in 1..(i - 1) : list[j].datetime # k
         IN [i \in 1..Len(keys) |-> list[first(keys[i])]]

\* the "summary" object of the hourly document (averages in 1/1000)
HourlySummary(hourly_list) ==
    LET num_hours == Len(hourly_list)
        total_consumption ==
            SumSeq([i \in 1..num_hours |-> hourly_list[i].consumption], 1, num_hours)
        total_cost ==
            SumSeq([i \in 1..num_hours |-> hourly_list[i].cost], 1, num_hours)
    IN [total_hours                |-> num_hours,
        total_consumption          |-> RoundDiv(total_consumption, 10),
        total_cost                 |-> RoundDiv(total_cost, 10),
        average_hourly_consumption |->
            IF num_hours > 0 THEN RoundDiv(total_consumption, num_hours) ELSE 0,
        average_hourly_cost        |->
            IF num_hours > 0 THEN RoundDiv(total_cost, num_hours) ELSE 0,
        datetime_range_start       |->
            IF num_hours > 0 THEN hourly_list[1].datetime ELSE MissingKey,
        datetime_range_end         |->
            IF num_hours > 0 THEN hourly_list[num_hours].datetime ELSE MissingKey]

\* load_existing_hourly_data: hourly_usage of the stored document, or an
\* empty map when the file is absent or cannot be parsed
load_existing_hourly_data(file) ==
    IF file.kind = "json" THEN file.hourly_usage ELSE EmptyMap

\* json_data of _store_hourly_data_json for the loaded map and the fetched data
HourlyJson(existing_hourly, fetched, now) ==
    LET hourly_data ==
            FilterLast7Days(UpsertHourly(existing_hourly, fetched.hourly_usage_history), now)
        hourly_list == HourListByKey(hourly_data)
    IN [kind         |-> "json",
        summary      |-> HourlySummary(hourly_list),
        hourly_usage |-> hourly_data,
        hourly_list  |-> SortedByDatetime(hourly_list)]

----------------------------------------------------------------------------
(* Reading the store back: _load_extended_historical_data and              *)
(* _load_extended_hourly_data                                              *)

\* extended_daily_usage_history that walks the keys in the order the trim
\* left them in the map (most recent first) instead of sorting them
ExtendedDailyUnsorted(daily_usage) ==
    LET keys == Reverse(SortedDates(DOMAIN daily_usage))
    IN [i \in 1..Len(keys) |->
            [date        |-> daily_usage[keys[i]].timestamp,
             consumption |-> daily_usage[keys[i]].consumption,
             cost        |-> daily_usage[keys[i]].cost,
             free_power  |-> daily_usage[keys[i]].free_power]]

\* extended_daily_usage_history that misses the most recent key, as a
\* snapshot taken before the cycle's write would
ExtendedDailyBeforeWrite(daily_usage) ==
    LET keys == SortedDates(DOMAIN daily_usage)
    IN [i \in 1..(IF Len(keys) > 0 THEN Len(keys) - 1 ELSE 0) |->
            [date        |-> daily_usage[keys[i]].timestamp,
             consumption |-> daily_usage[keys[i]].consumption,
             cost        |-> daily_usage[keys[i]].cost,
             free_power  |-> daily_usage[keys[i]].free_power]]

\* daily_list of load_data: one entry per key of daily_usage, keys sorted
extended_daily_usage_history(daily_usage) ==
    LET keys == SortedDates(DOMAIN daily_usage)
    IN [i \in 1..Len(keys) |->
            [date        |-> daily_usage[keys[i]].timestamp,
             consumption |-> daily_usage[keys[i]].consumption,
             cost        |-> daily_usage[keys[i]].cost,
             free_power  |-> daily_usage[keys[i]].free_power]]

\* temp_list of load_data
extended_temperature_history(temperature) ==
    LET keys == SortedDates(DOMAIN temperature)
    IN [i \in 1..Len(keys) |->
            [date |-> temperature[keys[i]].timestamp,
             temp |-> temperature[keys[i]].temperature]]

\* hourly_list of load_data
extended_hourly_usage_history(hourly_usage) ==
    LET keys == SortedKeys(DOMAIN hourly_usage)
    IN [i \in 1..Len(keys) |->
            [datetime    |-> hourly_usage[keys[i]].timestamp,
             date        |-> hourly_usage[keys[i]].timestamp,
             consumption |-> hourly_usage[keys[i]].consumption,
             cost        |-> hourly_usage[keys[i]].cost]]

----------------------------------------------------------------------------
(* What the usage fetch can hand to the coordinator *)

DayRec(day, tod, consumption, cost, has_fp, fp) ==
    [date |-> <<day, tod>>, consumption |-> consumption, cost |-> cost,
     has_free_power |-> has_fp, free_power |-> fp]

TempRec(day, tod, temp) == [date |-> <<day, tod>>, temp |-> temp]

HourRec(datetime, date, consumption, cost) ==
    [datetime |-> datetime, date |-> date, consumption |-> consumption, cost |-> cost]

SeqsUpTo(S, n) == UNION {[1..m -> S] : m \in 0..n}

\* a window of consecutive days lo..hi, as the upstream sends after a long gap
BulkDays(lo, hi) == [i \in 1..(hi - lo + 1) |-> DayRec(lo + i - 1, 0, 1000, 300, FALSE, FALSE)]

BulkTemps(lo, hi) == [i \in 1..(hi - lo + 1) |-> TempRec(lo + i - 1, 0, 150)]

DailyRecords ==
    {DayRec(1, 0, 5000, 1500, FALSE, FALSE),
     DayRec(2, 0, 0, 0, TRUE, TRUE),
     DayRec(RetentionDays + 2, 0, 2500, 1000, TRUE, FALSE),
     DayRec(RetentionDays + 2, 1, 3333, 1004, FALSE, FALSE)}

DailyWindows ==
    SeqsUpTo(DailyRecords, MaxWindowLen)
        \cup {BulkDays(2, RetentionDays), BulkDays(2, RetentionDays + 1)}

TempRecords ==
    {TempRec(2, 0, 120), TempRec(RetentionDays + 2, 1, 185)}

TempWindows ==
    SeqsUpTo(TempRecords, MaxWindowLen) \cup {BulkTemps(2, RetentionDays + 1)}

\* the hour of the first cycle, and the time that may pass between cycles
FirstNow == 2 * RetentionHours

LongGap == RetentionHours + 24

\* an hour exactly seven days before the first cycle, written without a zone
\* (two readings of it); an hour whose local time is less than seven days
\* back and whose instant is more; a string that is no datetime, under 'date'
HourlyRecords ==
    {HourRec(HKey(FirstNow - RetentionHours, "naive"), MissingKey, 500, 150),
     HourRec(HKey(FirstNow - RetentionHours, "naive"), MissingKey, 700, 200),
     HourRec(HKey(FirstNow - RetentionHours + 11, "plus12"), MissingKey, 405, 120),
     HourRec(MissingKey, HKey(1, "bad"), 200, 50)}

HourlyWindows == SeqsUpTo(HourlyRecords, MaxWindowLen)

\* combined_data before the fetch and after an empty result ({})
NoData ==
    [has_daily    |-> FALSE, daily_usage_history  |-> <<>>,
     has_temp     |-> FALSE, temperature_history  |-> <<>>,
     has_hourly   |-> FALSE, hourly_usage_history |-> <<>>,
     has_extended |-> FALSE, extended_daily_usage_history |-> <<>>,
     extended_temperature_history |-> <<>>, total_historical_days |-> 0,
     has_extended_hourly |-> FALSE, extended_hourly_usage_history |-> <<>>,
     total_historical_hours |-> 0,
     has_metrics |-> FALSE, has_bill |-> FALSE]

\* a complete result of get_usage_data
Usage(daily, temps, hourly) ==
    [NoData EXCEPT !.has_daily = TRUE, !.daily_usage_history = daily,
                   !.has_temp = TRUE, !.temperature_history = temps,
                   !.has_hourly = TRUE, !.hourly_usage_history = hourly,
                   !.has_metrics = TRUE]

\* get_usage_data when _process_electricity_usage raised before it set the
\* history keys: only the keys of the hourly call are there
HourlyOnly(hourly) ==
    [NoData EXCEPT !.has_hourly = TRUE, !.hourly_usage_history = hourly]

\* The daily, the temperature and the hourly window are merged by code that
\* shares no variable, so a run varies one of them and leaves the other two
\* empty.  With the result comes the time passed since the last cycle: less
\* than an hour, or more than seven days.  The bill keys pass through the
\* cycle untouched, so one more kind of run varies them and no window.
Varying == {"daily", "temperature", "hourly", "bill"}

\* a record that came without one of its keys
Lacking(rec, key) == [k \in DOMAIN rec \ {key} |-> rec[k]]

MalformedDays ==
    {Lacking(DayRec(2, 0, 1000, 300, FALSE, FALSE), k) : k \in {"date", "consumption", "cost"}}

MalformedTemps == {Lacking(TempRec(2, 0, 120), k) : k \in {"date", "temp"}}

\* two records of day 1 with different times of day, and one of day 2
SameDayRecords ==
    {DayRec(1, 0, 5000, 1500, FALSE, FALSE),
     DayRec(1, 1, 4000, 1200, FALSE, TRUE),
     DayRec(2, 0, 2500, 1000, FALSE, FALSE)}

\* temperatures of day 1 (two readings) and of a day past the retention
JointTemps ==
    {TempRec(1, 0, 120), TempRec(1, 1, 140), TempRec(RetentionDays + 2, 0, 185)}

\* an hour with a key; one without 'datetime' and 'date'; one whose
\* 'datetime' is the empty string and whose 'date' is not; one whose only
\* key, 'date', is the empty string
UnkeyedHourlyRecords ==
    {HourRec(HKey(FirstNow - 1, "Z"), MissingKey, 500, 150),
     HourRec(MissingKey, MissingKey, 700, 200),
     HourRec(EmptyKey, HKey(FirstNow - 2, "Z"), 300, 90),
     HourRec(MissingKey, EmptyKey, 100, 30)}

\* a result with 'daily_usage_history' and neither 'temperature_history'
\* nor 'hourly_usage_history'
DailyOnly(daily) ==
    [NoData EXCEPT !.has_daily = TRUE, !.daily_usage_history = daily,
                   !.has_metrics = TRUE]

\* Runs that vary the shape of the windows: a daily window with records
\* that lack a key; a temperature window with such records, next to a
\* well-formed daily window; well-formed daily and temperature windows
\* together, and results without the temperature key; daily records of the
\* same day; hourly records without a key
WindowShapes ==
    {"malformed_daily", "malformed_temperature", "daily_and_temperature",
     "same_day", "unkeyed_hourly"}

UsageResults(v) ==
    {NoData, HourlyOnly(<<>>)}
        \cup CASE v = "daily"       -> {Usage(w, <<>>, <<>>) : w \in DailyWindows}
               [] v = "temperature" -> {Usage(<<>>, t, <<>>) : t \in TempWindows}
               [] v = "hourly"      -> {Usage(<<>>, <<>>, h) : h \in HourlyWindows}
               [] v = "bill"        -> {Usage(<<>>, <<>>, <<>>)}
               [] v = "malformed_daily" ->
                    {Usage(w, <<TempRec(1, 0, 120)>>, <<>>) :
                        w \in SeqsUpTo({DayRec(1, 0, 5000, 1500, FALSE, FALSE),
                                        DayRec(3, 0, 2500, 1000, FALSE, FALSE)}
                                           \cup MalformedDays, MaxWindowLen)}
               [] v = "malformed_temperature" ->
                    {Usage(<<d>>, t, <<>>) :
                        d \in {DayRec(1, 0, 5000, 1500, FALSE, FALSE),
                               DayRec(3, 0, 2500, 1000, FALSE, FALSE)},
                        t \in SeqsUpTo({TempRec(1, 0, 120)} \cup MalformedTemps,
                                       MaxWindowLen)}
               [] v = "daily_and_temperature" ->
                    {Usage(w, t, <<>>) :
                        w \in {<<>>, <<DayRec(1, 0, 5000, 1500, FALSE, FALSE)>>},
                        t \in SeqsUpTo(JointTemps, MaxWindowLen)
                                \cup {BulkTemps(2, RetentionDays + 1)}}
                      \cup {DailyOnly(<<d>>) :
                                d \in {DayRec(1, 0, 5000, 1500, FALSE, FALSE),
                                       DayRec(RetentionDays + 2, 0, 2500, 1000, FALSE, FALSE)}}
               [] v = "same_day"    ->
                    {Usage(w, <<>>, <<>>) : w \in SeqsUpTo(SameDayRecords, MaxWindowLen)}
               [] v = "unkeyed_hourly" ->
                    {Usage(<<>>, <<>>, h) : h \in SeqsUpTo(UnkeyedHourlyRecords, MaxWindowLen)}

\* is bill_data not empty
BillResults(v) == IF v = "bill" THEN BOOLEAN ELSE {FALSE}

Gaps(v) == IF v = "hourly" THEN {0, LongGap} ELSE {0}

\* what the consumer keeps of a returned mapping (the fresh windows of the
\* cycle are read while the mapping is composed, not tracked afterwards)
Published(combined) ==
    [combined EXCEPT !.daily_usage_history = <<>>, !.temperature_history = <<>>,
                     !.hourly_usage_history = <<>>]

----------------------------------------------------------------------------
(* What the model records of the adapter's calls *)

\* the record kept of one authenticate() call
AuthTrace(auth, cl, login, a) ==
    [called            |-> TRUE,
     pre_authenticated |-> auth,
     pre_client        |-> cl,
     login             |-> IF a.constructed = 0 THEN "none" ELSE login,
     result            |-> a]

NoAuthTrace ==
    [called |-> FALSE, pre_authenticated |-> FALSE, pre_client |-> "None",
     login |-> "none",
     result |-> [success |-> FALSE, authenticated |-> FALSE, client |-> "None",
                 logged_in |-> 0, constructed |-> 0, raised |-> FALSE]]

\* the upstream calls of one attempt of a fetch, each with its outcome
NoCalls ==
    [account |-> "not_called", usage |-> "not_called", hourly |-> "not_called",
     monthly |-> "not_called", bill |-> "not_called", summary |-> "not_called"]

CallNames == {"account", "usage", "hourly", "monthly", "bill", "summary"}

\* the record kept of the fetch operation that runs or ran last
NoOperation ==
    [name |-> "none", attempts |-> 0, authenticate_calls |-> 0,
     reauthentications |-> 0, calls |-> NoCalls,
     unauthenticated_calls |-> FALSE, returned |-> "none"]

Began(name) == [NoOperation EXCEPT !.name = name, !.returned = "running"]

\* what the model records of the running cycle's fetches: whether an except
\* clause saw an expiry, whether one saw an expiry after that, and what the
\* authenticate() call at the entry of get_usage_data returned ("not_called"
\* when the session was there)
NoCycleTrace ==
    [expiry_seen |-> FALSE, expiry_seen_again |-> FALSE,
     first_authenticate |-> "none"]

\* MercurySensor.native_value (sensor.py lines 121-152) for a sensor of a
\* usage metric: the value of its key, and the default of its unit (0) when
\* the mapping is empty or lacks the key
native_value(mapping) == IF mapping.has_metrics THEN "value" ELSE "default"

----------------------------------------------------------------------------
(* The config entry, the cycle's exceptions and single calls at rest *)

\* the keys of SENSOR_TYPES
SENSOR_TYPES ==
    {"total_usage", "energy_usage", "current_bill", "latest_daily_usage",
     "latest_daily_cost", "average_temperature", "current_temperature",
     "customer_id", "hourly_usage", "monthly_usage",
     "bill_account_id", "bill_balance", "bill_due_amount", "bill_bill_date",
     "bill_due_date", "bill_overdue_amount", "bill_statement_total",
     "bill_electricity_amount", "bill_gas_amount", "bill_broadband_amount",
     "bill_payment_type", "bill_payment_method",
     "weekly_start_date", "weekly_end_date", "weekly_usage_cost",
     "weekly_notes", "weekly_usage_history",
     "monthly_billing_start_date", "monthly_billing_end_date",
     "monthly_days_remaining", "monthly_usage_cost",
     "monthly_usage_consumption", "monthly_billing_progress_percent",
     "monthly_projected_bill_note"}

\* the config entry has been set up
EntryLoaded ==
    /\ setup_pc = "loaded"
    /\ hass_data = {"entry_id"}
    /\ entities = SENSOR_TYPES
    /\ setup_returned = "True"
    /\ first_refresh = "returns"

NoException == [type |-> "none"]

\* no statement of the cycle is singled out for an exception
UpdateIdle ==
    /\ update_pc = 0
    /\ absorbed = {}
    /\ propagated = NoException

NoCall == [fn |-> "none"]

Pending == [status |-> "pending"]

\* no single call is looked at
CallIdle ==
    /\ call = NoCall
    /\ returned = Pending

\* one config entry: no coordinator of another account, and the Lovelace
\* resources left out
HostIdle ==
    /\ coordinators = <<>>
    /\ lovelace = <<>>
    /\ registrations = <<>>

----------------------------------------------------------------------------
(* The update cycle: _async_update_data *)

StoreAtRest ==
    /\ pc = "idle"
    /\ cycle = 0
    /\ now_utc = FirstNow
    /\ combined_data = NoData
    /\ mercury_daily = NoFile
    /\ mercury_hourly = NoFile
    /\ existing_daily_data = EmptyMap
    /\ existing_temp_data = EmptyMap
    /\ existing_hourly_data = EmptyMap
    /\ json_data = NoFile
    /\ data = NoData
    /\ published_cycle = 0
    /\ all_fetched = EmptyMap

StoreInit ==
    /\ StoreAtRest
    /\ varies \in Varying

\* MercuryAPI.__init__, and no fetch running
ApiInit ==
    /\ api_pc = "idle"
    /\ authenticated = FALSE
    /\ client = "None"
    /\ retry_count = 0
    /\ usage_returned = "none"
    /\ bill_returned = "none"
    /\ logins = 0
    /\ reauthentications = 0
    /\ operation = NoOperation
    /\ auth_trace = NoAuthTrace
    /\ cycle_trace = NoCycleTrace

Init ==
    /\ StoreInit
    /\ ApiInit
    /\ upstream = "healthy"
    /\ EntryLoaded
    /\ UpdateIdle
    /\ HostIdle
    /\ CallIdle

\* the scheduler starts a cycle; get_usage_data returns and combined_data is
\* its copy (lines 45-72). 
FetchUsageData ==
    /\ pc = "idle"
    /\ cycle < MaxCycles
    /\ \E usage_data \in UsageResults(varies), gap \in Gaps(varies),
          bill_data \in BillResults(varies) :
        /\ now_utc + gap <= FirstNow + LongGap
        /\ now_utc' = now_utc + gap
        /\ combined_data' = [usage_data EXCEPT !.has_bill = bill_data]
        /\ all_fetched' = IF usage_data.has_daily /\ ~DailyKeyError(usage_data)
                          THEN UpsertDaily(all_fetched, usage_data.daily_usage_history)
                          ELSE all_fetched
    /\ cycle' = cycle + 1
    /\ pc' = "store_daily"
    /\ UNCHANGED <<mercury_daily, mercury_hourly, existing_daily_data,
                   existing_temp_data, existing_hourly_data, json_data, data, published_cycle, varies>>
    /\ UNCHANGED apiVars
    /\ UNCHANGED restVars

\* _store_daily_data_json returns at once: no 'daily_usage_history' key
StoreDailySkip ==
    /\ pc = "store_daily"
    /\ ~combined_data.has_daily
    /\ pc' = "store_hourly"
    /\ UNCHANGED <<cycle, now_utc, combined_data, mercury_daily, mercury_hourly,
                   existing_daily_data, existing_temp_data, existing_hourly_data,
                   json_data, data, published_cycle, varies, all_fetched>>
    /\ UNCHANGED apiVars
    /\ UNCHANGED restVars

\* _store_daily_data_json up to open(json_file, 'w'): the stored maps are
\* loaded, merged with the window and trimmed, the document is built, and
\* opening the file for writing empties it
StoreDailyOpen ==
    /\ pc = "store_daily"
    /\ combined_data.has_daily
    /\ existing_daily_data' = load_existing_data(mercury_daily)[1]
    /\ existing_temp_data' = load_existing_data(mercury_daily)[2]
    /\ json_data' = DailyJson(existing_daily_data', existing_temp_data', combined_data)
    /\ json_data'.kind = "json"
    /\ mercury_daily' = Truncated
    /\ pc' = "write_daily"
    /\ UNCHANGED <<cycle, now_utc, combined_data, mercury_hourly,
                   existing_hourly_data, data, published_cycle, varies, all_fetched>>
    /\ UNCHANGED apiVars
    /\ UNCHANGED restVars

\* _store_daily_data_json when a loop over a window raises: the stored maps
\* were loaded, the merged maps are dropped with the frame, the except clause
\* (lines 356-357) logs the error and the function returns without opening
\* the file for writing
StoreDailyRaises ==
    /\ pc = "store_daily"
    /\ combined_data.has_daily
    /\ existing_daily_data' = load_existing_data(mercury_daily)[1]
    /\ existing_temp_data' = load_existing_data(mercury_daily)[2]
    /\ DailyJson(existing_daily_data', existing_temp_data', combined_data).kind = "KeyError"
    /\ pc' = "store_hourly"
    /\ UNCHANGED <<cycle, now_utc, combined_data, mercury_daily, mercury_hourly,
                   existing_hourly_data, json_data, data, published_cycle, varies,
                   all_fetched>>
    /\ UNCHANGED apiVars
    /\ UNCHANGED restVars

\* json.dump completes and the file is closed
StoreDailyWrite ==
    /\ pc = "write_daily"
    /\ mercury_daily' = json_data
    /\ json_data' = NoFile
    /\ pc' = "store_hourly"
    /\ UNCHANGED <<cycle, now_utc, combined_data, mercury_hourly,
                   existing_daily_data, existing_temp_data, existing_hourly_data,
                   data, published_cycle, varies, all_fetched>>
    /\ UNCHANGED apiVars
    /\ UNCHANGED restVars

\* _store_hourly_data_json returns at once: no 'hourly_usage_history' key
StoreHourlySkip ==
    /\ pc = "store_hourly"
    /\ ~combined_data.has_hourly
    /\ pc' = "load_daily"
    /\ UNCHANGED <<cycle, now_utc, combined_data, mercury_daily, mercury_hourly,
                   existing_daily_data, existing_temp_data, existing_hourly_data,
                   json_data, data, published_cycle, varies, all_fetched>>
    /\ UNCHANGED apiVars
    /\ UNCHANGED restVars

\* _store_hourly_data_json up to open(json_file, 'w')
StoreHourlyOpen ==
    /\ pc = "store_hourly"
    /\ combined_data.has_hourly
    /\ existing_hourly_data' = load_existing_hourly_data(mercury_hourly)
    /\ json_data' = HourlyJson(existing_hourly_data', combined_data, now_utc)
    /\ mercury_hourly' = Truncated
    /\ pc' = "write_hourly"
    /\ UNCHANGED <<cycle, now_utc, combined_data, mercury_daily,
                   existing_daily_data, existing_temp_data, data, published_cycle, varies, all_fetched>>
    /\ UNCHANGED apiVars
    /\ UNCHANGED restVars

\* json.dump completes and the file is closed
StoreHourlyWrite ==
    /\ pc = "write_hourly"
    /\ mercury_hourly' = json_data
    /\ json_data' = NoFile
    /\ pc' = "load_daily"
    /\ UNCHANGED <<cycle, now_utc, combined_data, mercury_daily,
                   existing_daily_data, existing_temp_data, existing_hourly_data,
                   data, published_cycle, varies, all_fetched>>
    /\ UNCHANGED apiVars
    /\ UNCHANGED restVars

\* _load_extended_historical_data and combined_data.update(extended_data);
\* an absent or unparseable file gives {} and no update
LoadExtendedHistoricalData ==
    /\ pc = "load_daily"
    /\ combined_data' =
          IF mercury_daily.kind = "json"
          THEN [combined_data EXCEPT
                  !.has_extended = TRUE,
                  !.extended_daily_usage_history =
                      extended_daily_usage_history(mercury_daily.daily_usage),
                  !.extended_temperature_history =
                      extended_temperature_history(mercury_daily.temperature),
                  !.total_historical_days =
                      Len(extended_daily_usage_history(mercury_daily.daily_usage))]
          ELSE combined_data
    /\ pc' = "load_hourly"
    /\ UNCHANGED <<cycle, now_utc, mercury_daily, mercury_hourly,
                   existing_daily_data, existing_temp_data, existing_hourly_data,
                   json_data, data, published_cycle, varies, all_fetched>>
    /\ UNCHANGED apiVars
    /\ UNCHANGED restVars

\* _load_extended_hourly_data and combined_data.update(extended_hourly_data)
LoadExtendedHourlyData ==
    /\ pc = "load_hourly"
    /\ combined_data' =
          IF mercury_hourly.kind = "json"
          THEN [combined_data EXCEPT
                  !.has_extended_hourly = TRUE,
                  !.extended_hourly_usage_history =
                      extended_hourly_usage_history(mercury_hourly.hourly_usage),
                  !.total_historical_hours =
                      Len(extended_hourly_usage_history(mercury_hourly.hourly_usage))]
          ELSE combined_data
    /\ pc' = "return"
    /\ UNCHANGED <<cycle, now_utc, mercury_daily, mercury_hourly,
                   existing_daily_data, existing_temp_data, existing_hourly_data,
                   json_data, data, published_cycle, varies, all_fetched>>
    /\ UNCHANGED apiVars
    /\ UNCHANGED restVars

\* return combined_data: the mapping is published as coordinator.data
ReturnCombinedData ==
    /\ pc = "return"
    /\ data' = Published(combined_data)
    /\ published_cycle' = cycle
    /\ combined_data' = NoData
    /\ existing_daily_data' = EmptyMap
    /\ existing_temp_data' = EmptyMap
    /\ existing_hourly_data' = EmptyMap
    /\ pc' = "idle"
    /\ UNCHANGED <<cycle, now_utc, mercury_daily, mercury_hourly, json_data,
                   varies, all_fetched>>
    /\ UNCHANGED apiVars
    /\ UNCHANGED restVars

Next ==
    \/ FetchUsageData
    \/ StoreDailySkip
    \/ StoreDailyOpen
    \/ StoreDailyWrite
    \/ StoreHourlySkip
    \/ StoreHourlyOpen
    \/ StoreHourlyWrite
    \/ LoadExtendedHistoricalData
    \/ LoadExtendedHourlyData
    \/ ReturnCombinedData

Spec == Init /\ [][Next]_vars

----------------------------------------------------------------------------
(* Windows of any shape: the cycle with the store's except clause *)

InitWindows ==
    /\ StoreAtRest
    /\ varies \in WindowShapes
    /\ ApiInit
    /\ upstream = "healthy"
    /\ EntryLoaded
    /\ UpdateIdle
    /\ HostIdle
    /\ CallIdle

NextWindows ==
    \/ Next
    \/ StoreDailyRaises

SpecWindows == InitWindows /\ [][NextWindows]_vars

----------------------------------------------------------------------------
(* Storage faults: json.dump raises after open(json_file, 'w') has emptied *)
(* the file (disk full, I/O error).  The except clause of the store logs   *)
(* the error and the cycle goes on with the file as the failed write left  *)
(* it.                                                                     *)

StoreDailyWriteFails ==
    /\ pc = "write_daily"
    /\ json_data' = NoFile
    /\ pc' = "store_hourly"
    /\ UNCHANGED <<cycle, now_utc, combined_data, mercury_daily, mercury_hourly,
                   existing_daily_data, existing_temp_data, existing_hourly_data,
                   data, published_cycle, varies, all_fetched>>
    /\ UNCHANGED apiVars
    /\ UNCHANGED restVars

StoreHourlyWriteFails ==
    /\ pc = "write_hourly"
    /\ json_data' = NoFile
    /\ pc' = "load_daily"
    /\ UNCHANGED <<cycle, now_utc, combined_data, mercury_daily, mercury_hourly,
                   existing_daily_data, existing_temp_data, existing_hourly_data,
                   data, published_cycle, varies, all_fetched>>
    /\ UNCHANGED apiVars
    /\ UNCHANGED restVars

NextFaults ==
    \/ Next
    \/ StoreDailyWriteFails
    \/ StoreHourlyWriteFails

SpecFaults == Init /\ [][NextFaults]_vars

----------------------------------------------------------------------------
(* The upstream client adapter: MercuryAPI (mercury_api.py).               *)
(*                                                                         *)
(* A cycle calls get_usage_data() and then get_bill_summary()              *)
(* (coordinator.py lines 50-55).  A call of the upstream client returns:   *)
(* "ok" (data), "empty" (a falsy value), "expired" (it raises with 'Tokens *)
(* expired' or 'refresh failed' in the message) or "error" (it raises      *)
(* anything else); the bill call may also be "unavailable" (the client has *)
(* no such method).  The upstream of a run is "healthy" (no expiry),       *)
(* "expiring" (every data call signals expiry, every login succeeds) or    *)
(* "unreliable" (anything).                                                *)

Upstreams == {"healthy", "expiring", "unreliable"}

CallOutcomes(u) ==
    CASE u = "healthy"    -> {"ok", "empty", "error"}
      [] u = "expiring"   -> {"expired"}
      [] u = "unreliable" -> {"ok", "empty", "expired", "error"}

\* what MercuryClient(email, password) and client.login do: the client is
\* logged in afterwards, login returns and it is not, login raises, or the
\* constructor raises
LoginOutcomes(u) ==
    CASE u = "healthy"    -> {"ok", "not_logged_in", "login_raises", "construct_raises"}
      [] u = "expiring"   -> {"ok"}
      [] u = "unreliable" -> {"ok", "not_logged_in", "login_raises", "construct_raises"}

\* authenticate() that logs in again although it is authenticated
AuthenticateAlwaysLogsIn(auth, cl, login) ==
    [success       |-> login = "ok",
     authenticated |-> login = "ok",
     client        |-> CASE login = "ok" -> "logged_in"
                         [] login = "construct_raises" -> cl
                         [] OTHER -> "logged_out",
     logged_in     |-> IF login = "construct_raises" THEN 0 ELSE 1,
     constructed   |-> 1,
     raised        |-> FALSE]

\* authenticate() whose except clause leaves _authenticated as it was
AuthenticateKeepsFlag(auth, cl, login) ==
    IF auth /\ cl = "logged_in"
    THEN [success |-> TRUE, authenticated |-> TRUE, client |-> cl,
          logged_in |-> 0, constructed |-> 0, raised |-> FALSE]
    ELSE [success       |-> login = "ok",
          authenticated |-> IF login \in {"login_raises", "construct_raises"}
                            THEN auth ELSE login = "ok",
          client        |-> CASE login = "ok" -> "logged_in"
                              [] login = "construct_raises" -> cl
                              [] OTHER -> "logged_out",
          logged_in     |-> IF login = "construct_raises" THEN 0 ELSE 1,
          constructed   |-> 1,
          raised        |-> FALSE]

\* authenticate() with what the constructor and client.login do: what it
\* returns, what it leaves in _authenticated and _client, how often it
\* called the constructor and client.login, and whether an exception left it
authenticate(auth, cl, login) ==
    IF auth /\ cl = "logged_in"
    THEN [success |-> TRUE, authenticated |-> TRUE, client |-> cl,
          logged_in |-> 0, constructed |-> 0, raised |-> FALSE]
    ELSE [success       |-> login = "ok",
          authenticated |-> login = "ok",
          client        |-> CASE login = "ok" -> "logged_in"
                              [] login = "construct_raises" -> cl
                              [] OTHER -> "logged_out",
          logged_in     |-> IF login = "construct_raises" THEN 0 ELSE 1,
          constructed   |-> 1,
          raised        |-> FALSE]

otherStoreVars == <<pc, now_utc, combined_data, mercury_daily, mercury_hourly,
                    existing_daily_data, existing_temp_data, existing_hourly_data,
                    json_data, data, published_cycle, varies, all_fetched>>

\* an entry guard that never asks for authentication
NeedsAuthenticateNever(auth, cl) == FALSE

\* the test of the entry guards (lines 84, 200, 336, 487, 566):
\* not self._authenticated or not self._client
NeedsAuthenticate(auth, cl) == ~auth \/ cl = "None"

\* the entry of a fetch operation (lines 84-89, 200-205, 336-340, 487-492,
\* 566-571): authenticate when the flag is not set or there is no client,
\* and return {} when that fails
EnterFetch(op, fetch_pc, return_pc, target) ==
    /\ IF NeedsAuthenticate(authenticated, client)
       THEN \E login \in LoginOutcomes(upstream) :
               LET a == authenticate(authenticated, client, login)
               IN /\ authenticated' = a.authenticated
                  /\ client' = a.client
                  /\ logins' = logins + a.logged_in
                  /\ auth_trace' = AuthTrace(authenticated, client, login, a)
                  /\ cycle_trace' =
                        IF target = "usage" /\ retry_count = 0
                        THEN [cycle_trace EXCEPT !.first_authenticate =
                                                    IF a.success THEN "ok" ELSE "failed"]
                        ELSE cycle_trace
                  /\ IF a.success
                     THEN /\ api_pc' = fetch_pc
                          /\ operation' = [op EXCEPT !.authenticate_calls = @ + 1]
                          /\ UNCHANGED <<usage_returned, bill_returned, retry_count>>
                     ELSE /\ api_pc' = return_pc
                          /\ operation' = [op EXCEPT !.authenticate_calls = @ + 1,
                                                     !.returned = "empty"]
                          /\ usage_returned' =
                                IF target = "usage" THEN "empty" ELSE usage_returned
                          /\ bill_returned' =
                                IF target = "bill" THEN "empty" ELSE bill_returned
                          /\ retry_count' = 0
       ELSE /\ api_pc' = fetch_pc
            /\ operation' = op
            /\ cycle_trace' =
                  IF target = "usage" /\ retry_count = 0
                  THEN [cycle_trace EXCEPT !.first_authenticate = "not_called"]
                  ELSE cycle_trace
            /\ auth_trace' = NoAuthTrace
            /\ UNCHANGED <<authenticated, client, logins,
                           usage_returned, bill_returned, retry_count>>
    /\ UNCHANGED <<upstream, reauthentications>>

\* the retry test that lets a retried call retry once more
MayRetryTwice(exc, count) == exc = "expired" /\ count <= 1

\* the test of the except clauses (lines 147, 264, 381, 518, 670): the
\* message names an expiry and this call is not itself the retry
MayRetry(exc, count) == exc = "expired" /\ count = 0

\* an except clause that leaves the flag as it found it
FlagKept(auth) == auth

\* self._authenticated = False of the except clauses (lines 148, 265, 383,
\* 519, 672): the flag authenticate() then finds
flag_reset(auth) == FALSE

\* the end of one pass through the try block of a fetch operation.  called
\* holds the upstream calls it issued, exc what left the try block ("none",
\* "expired" or "error"), result what it returns when nothing did.  The
\* except clause (lines 145-158, 262-275, 380-388, 516-529, 668-685): on
\* expiry with _retry_count = 0 the flag is cleared, authenticate() is
\* called, and on success the operation calls itself with _retry_count + 1;
\* anything else returns {}
FinishAttempt(called, exc, result, enter_pc, return_pc, target) ==
    LET tried == [operation EXCEPT
                    !.attempts = @ + 1,
                    !.calls = called,
                    !.unauthenticated_calls =
                        @ \/ ~authenticated \/ client = "None"]
    IN /\ cycle_trace' = IF exc = "expired" /\ target # "summary"
                         THEN [cycle_trace EXCEPT
                                 !.expiry_seen = TRUE,
                                 !.expiry_seen_again = cycle_trace.expiry_seen]
                         ELSE cycle_trace
       /\ IF MayRetry(exc, retry_count)
          THEN \E login \in LoginOutcomes(upstream) :
                  LET a == authenticate(flag_reset(authenticated), client, login)
                      again == [tried EXCEPT !.authenticate_calls = @ + 1,
                                             !.reauthentications = @ + 1]
                  IN /\ authenticated' = a.authenticated
                     /\ client' = a.client
                     /\ logins' = logins + a.logged_in
                     /\ reauthentications' = reauthentications + 1
                     /\ auth_trace' = AuthTrace(flag_reset(authenticated), client,
                                               login, a)
                     /\ IF a.success
                        THEN /\ retry_count' = retry_count + 1
                             /\ api_pc' = enter_pc
                             /\ operation' = again
                             /\ UNCHANGED <<usage_returned, bill_returned>>
                        ELSE /\ retry_count' = 0
                             /\ api_pc' = return_pc
                             /\ operation' = [again EXCEPT !.returned = "empty"]
                             /\ usage_returned' =
                                   IF target = "usage" THEN "empty" ELSE usage_returned
                             /\ bill_returned' =
                                   IF target = "bill" THEN "empty" ELSE bill_returned
          ELSE LET r == IF exc = "none" THEN result ELSE "empty"
               IN /\ operation' = [tried EXCEPT !.returned = IF r = "empty" THEN r ELSE "data"]
                  /\ usage_returned' = IF target = "usage" THEN r ELSE usage_returned
                  /\ bill_returned' = IF target = "bill" THEN r ELSE bill_returned
                  /\ retry_count' = 0
                  /\ api_pc' = return_pc
                  /\ auth_trace' = NoAuthTrace
                  /\ UNCHANGED <<authenticated, client, logins, reauthentications>>
       /\ UNCHANGED upstream

\* what leaves the try block: the first of the given calls that raised
Raised(called, names) ==
    IF \E i \in 1..Len(names) : called[names[i]] \in {"expired", "error"}
    THEN called[names[CHOOSE i \in 1..Len(names) :
                        /\ called[names[i]] \in {"expired", "error"}
                        /\ \A j \in 1..(i - 1) :
                              called[names[j]] \notin {"expired", "error"}]]
    ELSE "none"

\* _async_update_data starts and calls get_usage_data()
StartFetches ==
    /\ api_pc = "idle"
    /\ pc = "idle"
    /\ cycle < MaxCycles
    /\ cycle' = cycle + 1
    /\ api_pc' = "usage_enter"
    /\ retry_count' = 0
    /\ usage_returned' = "none"
    /\ bill_returned' = "none"
    /\ logins' = 0
    /\ reauthentications' = 0
    /\ operation' = NoOperation
    /\ auth_trace' = NoAuthTrace
    /\ cycle_trace' = NoCycleTrace
    /\ UNCHANGED <<upstream, authenticated, client, otherStoreVars>>
    /\ UNCHANGED restVars

\* get_usage_data, lines 562-571
GetUsageDataEnter ==
    /\ api_pc = "usage_enter"
    /\ EnterFetch(IF retry_count = 0 THEN Began("get_usage_data") ELSE operation,
                  "usage_fetch", "bill_enter", "usage")
    /\ UNCHANGED storeVars
    /\ UNCHANGED restVars

\* the calls of get_usage_data's try block in their order (lines 573-666):
\* get_complete_account_data, get_electricity_usage, and through
\* _execute_api_call_with_fallback the hourly and the monthly call; a call
\* is issued when those before it returned data
UsageCalls(account, usage, hourly, monthly) ==
    IF account # "ok" THEN [NoCalls EXCEPT !.account = account]
    ELSE IF usage # "ok" THEN [NoCalls EXCEPT !.account = "ok", !.usage = usage]
    ELSE [NoCalls EXCEPT !.account = "ok", !.usage = "ok",
                         !.hourly = hourly, !.monthly = monthly]

\* get_usage_data, the try block and its except clause (lines 573-685):
\* what get_complete_account_data or get_electricity_usage raises leaves the
\* try block; what the hourly or the monthly call raises is caught by
\* _execute_api_call_with_fallback (lines 475-481), which returns zero and
\* an empty list for that call
GetUsageDataFetch ==
    /\ api_pc = "usage_fetch"
    /\ \E account \in CallOutcomes(upstream), usage \in CallOutcomes(upstream),
          hourly \in CallOutcomes(upstream), monthly \in CallOutcomes(upstream) :
          LET called == UsageCalls(account, usage, hourly, monthly)
          IN FinishAttempt(called, Raised(called, <<"account", "usage">>),
                           IF called.usage # "ok" THEN "empty"
                           ELSE IF called.hourly = "ok" THEN "data"
                           ELSE "data_without_hourly",
                           "usage_enter", "bill_enter", "usage")
    /\ UNCHANGED storeVars
    /\ UNCHANGED restVars

\* get_bill_summary, lines 332-340
GetBillSummaryEnter ==
    /\ api_pc = "bill_enter"
    /\ EnterFetch(IF retry_count = 0 THEN Began("get_bill_summary") ELSE operation,
                  "bill_fetch", "fetched", "bill")
    /\ UNCHANGED storeVars
    /\ UNCHANGED restVars

\* the calls of get_bill_summary's try block (lines 342-371)
BillCalls(account, bill) ==
    IF account # "ok" THEN [NoCalls EXCEPT !.account = account]
    ELSE [NoCalls EXCEPT !.account = "ok", !.bill = bill]

\* get_bill_summary, the try block and its except clause (lines 342-388):
\* get_complete_account_data may raise into the outer except clause; what
\* the bill call raises is caught by the inner one (lines 369-371), which
\* returns {}, as does a client without the method
GetBillSummaryFetch ==
    /\ api_pc = "bill_fetch"
    /\ \E account \in CallOutcomes(upstream),
          bill \in CallOutcomes(upstream) \cup
                      (IF upstream = "expiring" THEN {} ELSE {"unavailable"}) :
          LET called == BillCalls(account, bill)
          IN FinishAttempt(called, Raised(called, <<"account">>),
                           IF called.bill = "ok" THEN "data" ELSE "empty",
                           "bill_enter", "fetched", "bill")
    /\ UNCHANGED storeVars
    /\ UNCHANGED restVars

\* the fetch operations that no cycle calls: get_weekly_summary,
\* get_monthly_summary and get_usage_content
SummaryOperations == {"get_weekly_summary", "get_monthly_summary", "get_usage_content"}

\* a caller of the adapter calls one of them between two cycles
CallSummary ==
    /\ api_pc = "idle"
    /\ pc = "idle"
    /\ \E name \in SummaryOperations : operation' = Began(name)
    /\ api_pc' = "summary_enter"
    /\ retry_count' = 0
    /\ usage_returned' = "none"
    /\ bill_returned' = "none"
    /\ logins' = 0
    /\ reauthentications' = 0
    /\ auth_trace' = NoAuthTrace
    /\ cycle_trace' = NoCycleTrace
    /\ UNCHANGED <<upstream, authenticated, client, storeVars>>
    /\ UNCHANGED restVars

\* lines 80-89, 196-205, 483-492
GetSummaryEnter ==
    /\ api_pc = "summary_enter"
    /\ EnterFetch(operation, "summary_fetch", "idle", "summary")
    /\ UNCHANGED storeVars
    /\ UNCHANGED restVars

\* the calls of the try block: get_complete_account_data and
\* get_electricity_summary (lines 91-135, 207-252), or
\* get_electricity_usage_content alone (lines 494-506)
SummaryCalls(name, account, summary) ==
    IF name = "get_usage_content" THEN [NoCalls EXCEPT !.summary = summary]
    ELSE IF account # "ok" THEN [NoCalls EXCEPT !.account = account]
    ELSE [NoCalls EXCEPT !.account = "ok", !.summary = summary]

\* the try block and the except clause of the three (lines 91-158, 207-275,
\* 494-529)
GetSummaryFetch ==
    /\ api_pc = "summary_fetch"
    /\ \E account \in CallOutcomes(upstream), summary \in CallOutcomes(upstream) :
          LET called == SummaryCalls(operation.name, account, summary)
          IN FinishAttempt(called, Raised(called, <<"account", "summary">>),
                           IF called.summary = "ok" THEN "data" ELSE "empty",
                           "summary_enter", "idle", "summary")
    /\ UNCHANGED storeVars
    /\ UNCHANGED restVars

\* a caller of the adapter calls authenticate() itself between two cycles
\* (it is the adapter's public method; config_flow.py line 36 calls it on
\* an adapter of its own)
Authenticate ==
    /\ api_pc = "idle"
    /\ pc = "idle"
    /\ \E login \in LoginOutcomes(upstream) :
          LET a == authenticate(authenticated, client, login)
          IN /\ authenticated' = a.authenticated
             /\ client' = a.client
             /\ auth_trace' = AuthTrace(authenticated, client, login, a)
    /\ operation' = NoOperation
    /\ usage_returned' = "none"
    /\ bill_returned' = "none"
    /\ logins' = 0
    /\ reauthentications' = 0
    /\ cycle_trace' = NoCycleTrace
    /\ UNCHANGED <<api_pc, upstream, retry_count, storeVars>>
    /\ UNCHANGED restVars

\* the upstream session ends: client.is_logged_in turns false while the
\* adapter's flag stays as it is
SessionLapses ==
    /\ api_pc = "idle"
    /\ pc = "idle"
    /\ upstream # "healthy"
    /\ client = "logged_in"
    /\ client' = "logged_out"
    /\ UNCHANGED <<api_pc, upstream, authenticated, retry_count, usage_returned,
                   bill_returned, logins, reauthentications, operation, auth_trace,
                   cycle_trace, storeVars>>
    /\ UNCHANGED restVars

\* what get_usage_data returns when the daily call returned data: the
\* metrics, one day and one temperature, and the hourly window (empty when
\* the hourly call fell back); the cycles of a run follow each other within
\* the hour and are given the same windows
CycleUsage(usage) ==
    Usage(<<DayRec(1, 0, 1000, 300, FALSE, FALSE)>>,
          <<TempRec(1, 0, 150)>>,
          IF usage = "data"
          THEN <<HourRec(HKey(FirstNow - 1, "naive"), MissingKey, 500, 150)>>
          ELSE <<>>)

\* Combined that publishes the usage data only when the bill came too
CombinedNeedsBill(usage, bill, fresh) ==
    IF usage # "empty" /\ bill = "data" THEN [fresh EXCEPT !.has_bill = TRUE]
    ELSE NoData

\* combined_data of lines 57-62: the copy of usage_data ({} when it is
\* empty) and, when bill_data is not empty, its keys under the prefix bill_
Combined(usage, bill, fresh) ==
    [(IF usage # "empty" THEN fresh ELSE NoData) EXCEPT !.has_bill = (bill = "data")]

\* both fetches have returned: combined_data is composed (lines 57-72) and
\* the cycle goes on to the stores
CombineData ==
    /\ api_pc = "fetched"
    /\ pc = "idle"
    /\ combined_data' = Combined(usage_returned, bill_returned,
                                 CycleUsage(usage_returned))
    /\ all_fetched' = IF combined_data'.has_daily
                      THEN UpsertDaily(all_fetched, combined_data'.daily_usage_history)
                      ELSE all_fetched
    /\ pc' = "store_daily"
    /\ api_pc' = "idle"
    /\ UNCHANGED <<cycle, now_utc, mercury_daily, mercury_hourly, existing_daily_data,
                   existing_temp_data, existing_hourly_data, json_data, data, varies,
                   published_cycle>>
    /\ operation' = NoOperation
    /\ auth_trace' = NoAuthTrace
    /\ logins' = 0
    /\ reauthentications' = 0
    /\ UNCHANGED <<upstream, authenticated, client, retry_count, usage_returned,
                   bill_returned, cycle_trace>>
    /\ UNCHANGED restVars

InitApi ==
    /\ StoreInit
    /\ varies = "daily"
    /\ ApiInit
    /\ upstream \in Upstreams
    /\ EntryLoaded
    /\ UpdateIdle
    /\ HostIdle
    /\ CallIdle

\* the steps of a cycle once it has started
CycleStep ==
    \/ GetUsageDataEnter
    \/ GetUsageDataFetch
    \/ GetBillSummaryEnter
    \/ GetBillSummaryFetch
    \/ CombineData
    \/ StoreDailySkip
    \/ StoreDailyOpen
    \/ StoreDailyWrite
    \/ StoreHourlySkip
    \/ StoreHourlyOpen
    \/ StoreHourlyWrite
    \/ LoadExtendedHistoricalData
    \/ LoadExtendedHourlyData
    \/ ReturnCombinedData

NextApi ==
    \/ StartFetches
    \/ CycleStep
    \/ CallSummary
    \/ GetSummaryEnter
    \/ GetSummaryFetch
    \/ Authenticate
    \/ SessionLapses

SpecApi == InitApi /\ [][NextApi]_vars

\* every await of a started cycle or operation returns: the event loop runs
\* the coroutine on, and the upstream calls answer or raise
\* the cycles and the fetch operations alone
NextFetch ==
    \/ StartFetches
    \/ CycleStep
    \/ CallSummary
    \/ GetSummaryEnter
    \/ GetSummaryFetch

SpecFetchFair ==
    /\ InitApi
    /\ [][NextFetch]_vars
    /\ WF_vars(CycleStep \/ GetSummaryEnter \/ GetSummaryFetch)

----------------------------------------------------------------------------
(* Where a cycle stands with respect to its two merges *)

\* the daily store of the running cycle has just merged and written its
\* document (nothing it read or wrote changes before the next cycle)
DailyMerged ==
    /\ pc = "store_hourly"
    /\ combined_data.has_daily
    /\ mercury_daily.kind = "json"

\* the hourly store of the running cycle has just merged and written its
\* document
HourlyMerged ==
    /\ pc = "load_daily"
    /\ combined_data.has_hourly
    /\ mercury_hourly.kind = "json"

\* the instant a datetime key names, a key without a zone read as UTC
InstantUTC(key) == IF key.tz = "plus12" THEN key.local - 12 ELSE key.local

----------------------------------------------------------------------------
(* C1  Freshness precedence.  After a merge, every key still stored that   *)
(* the fresh window holds carries a record of the fresh window (not the    *)
(* stored one), and every other stored key carries the record it had       *)
(* before the merge; this for daily usage, temperature and hourly usage.   *)

C1_DailyPrecedence ==
    DailyMerged =>
        LET window == combined_data.daily_usage_history
        IN \A k \in DOMAIN mercury_daily.daily_usage :
            IF k \in WindowKeys(window)
            THEN \E i \in 1..Len(window) :
                    /\ date_key(window[i].date) = k
                    /\ mercury_daily.daily_usage[k].consumption = window[i].consumption
                    /\ mercury_daily.daily_usage[k].cost = window[i].cost
                    /\ mercury_daily.daily_usage[k].timestamp = window[i].date
            ELSE /\ k \in DOMAIN existing_daily_data
                 /\ mercury_daily.daily_usage[k] = existing_daily_data[k]

C1_TemperaturePrecedence ==
    (DailyMerged /\ combined_data.has_temp) =>
        LET window == combined_data.temperature_history
        IN \A k \in DOMAIN mercury_daily.temperature :
            IF k \in WindowKeys(window)
            THEN \E i \in 1..Len(window) :
                    /\ date_key(window[i].date) = k
                    /\ mercury_daily.temperature[k].temperature = window[i].temp
                    /\ mercury_daily.temperature[k].timestamp = window[i].date
            ELSE /\ k \in DOMAIN existing_temp_data
                 /\ mercury_daily.temperature[k] = existing_temp_data[k]

C1_HourlyPrecedence ==
    HourlyMerged =>
        LET window == combined_data.hourly_usage_history
        IN \A k \in DOMAIN mercury_hourly.hourly_usage :
            IF k \in HourWindowKeys(window)
            THEN \E i \in 1..Len(window) :
                    /\ datetime_key(window[i]) = k
                    /\ mercury_hourly.hourly_usage[k].consumption = window[i].consumption
                    /\ mercury_hourly.hourly_usage[k].cost = window[i].cost
            ELSE /\ k \in DOMAIN existing_hourly_data
                 /\ mercury_hourly.hourly_usage[k] = existing_hourly_data[k]

C1_FreshnessPrecedence ==
    C1_DailyPrecedence /\ C1_TemperaturePrecedence /\ C1_HourlyPrecedence

\* a stored date is fetched again with other amounts and now holds them
C1_Witness ==
    /\ DailyMerged
    /\ \E k \in (DOMAIN existing_daily_data) \cap (DOMAIN mercury_daily.daily_usage) :
        /\ k \in WindowKeys(combined_data.daily_usage_history)
        /\ existing_daily_data[k].consumption # mercury_daily.daily_usage[k].consumption

----------------------------------------------------------------------------
(* C2  Idempotent merge.  Running the daily store again with the window    *)
(* that was just merged leaves daily_usage, temperature, daily_list and    *)
(* the summary of the document as they are, and the document lists every   *)
(* stored date once.                                                       *)

C2_IdempotentMerge ==
    DailyMerged =>
        /\ DailyJson(load_existing_data(mercury_daily)[1],
                     load_existing_data(mercury_daily)[2],
                     combined_data) = mercury_daily
        /\ Len(mercury_daily.daily_list) = Cardinality(DOMAIN mercury_daily.daily_usage)
        /\ \A i \in 1..(Len(mercury_daily.daily_list) - 1) :
              mercury_daily.daily_list[i].date # mercury_daily.daily_list[i + 1].date

\* a window that holds a stored date and a new one has been merged into a
\* store that was not empty
C2_Witness ==
    /\ DailyMerged
    /\ existing_daily_data # EmptyMap
    /\ WindowKeys(combined_data.daily_usage_history) \cap DOMAIN existing_daily_data # {}
    /\ WindowKeys(combined_data.daily_usage_history) \ DOMAIN existing_daily_data # {}

----------------------------------------------------------------------------
(* C3  Daily retention bound.  The daily collection of a written document  *)
(* never has more than 180 entries; a merge keeps every date of the stored *)
(* map and the window when they are at most 180, and otherwise keeps       *)
(* exactly 180 of them, every evicted date being older than every kept one.*)

C3_DailyRetention ==
    /\ mercury_daily.kind = "json" =>
          Cardinality(DOMAIN mercury_daily.daily_usage) <= RetentionDays
    /\ DailyMerged =>
          LET merged == (DOMAIN existing_daily_data)
                            \cup WindowKeys(combined_data.daily_usage_history)
              kept == DOMAIN mercury_daily.daily_usage
          IN /\ kept \subseteq merged
             /\ Cardinality(kept) =
                    IF Cardinality(merged) > RetentionDays
                    THEN RetentionDays ELSE Cardinality(merged)
             /\ \A evicted \in merged \ kept : \A k \in kept : evicted < k

\* 180 stored dates and a newer one: 180 entries, the oldest gone, the new
\* one there
C3_Witness ==
    /\ DailyMerged
    /\ Cardinality(DOMAIN existing_daily_data) = RetentionDays
    /\ Cardinality(DOMAIN mercury_daily.daily_usage) = RetentionDays
    /\ 2 \in DOMAIN existing_daily_data
    /\ 2 \notin DOMAIN mercury_daily.daily_usage
    /\ (RetentionDays + 2) \notin DOMAIN existing_daily_data
    /\ (RetentionDays + 2) \in DOMAIN mercury_daily.daily_usage

----------------------------------------------------------------------------
(* C4  Hourly retention on merge.  After an hourly merge the stored keys   *)
(* are exactly those of the stored map and the window that cannot be       *)
(* parsed, or whose instant (a missing zone read as UTC) is not before     *)
(* now - 7 days.                                                           *)

C4_HourlyRetention ==
    HourlyMerged =>
        LET merged == (DOMAIN existing_hourly_data)
                          \cup HourWindowKeys(combined_data.hourly_usage_history)
        IN DOMAIN mercury_hourly.hourly_usage =
              {k \in merged :
                  \/ k.tz = "bad"
                  \/ InstantUTC(k) >= now_utc - RetentionHours}

\* an unparseable key and a zoneless key exactly seven days old are kept
\* while a key whose instant is older is dropped
C4_Witness ==
    /\ HourlyMerged
    /\ \E k \in DOMAIN mercury_hourly.hourly_usage : k.tz = "bad"
    /\ \E k \in DOMAIN mercury_hourly.hourly_usage :
          k.tz = "naive" /\ k.local = now_utc - RetentionHours
    /\ \E k \in HourWindowKeys(combined_data.hourly_usage_history) :
          k \notin DOMAIN mercury_hourly.hourly_usage

----------------------------------------------------------------------------
(* C5  Stale hourly eviction without new data.  At the end of a cycle that *)
(* brought no new hourly records (the hourly window empty, or absent       *)
(* because the usage fetch returned an empty result), no entry with a      *)
(* parseable timestamp older than seven days is left in the hourly         *)
(* document nor in extended_hourly_usage_history.  The code skips the      *)
(* hourly store, and with it the trim, when the window is absent.          *)

StaleHour(key) == Parseable(key) /\ InstantUTC(key) < now_utc - RetentionHours

C5_StaleEvictedWithoutNewData ==
    (/\ pc = "return"
     /\ ~combined_data.has_hourly \/ combined_data.hourly_usage_history = <<>>)
    => /\ mercury_hourly.kind = "json" =>
              \A k \in DOMAIN mercury_hourly.hourly_usage : ~StaleHour(k)
       /\ \A i \in 1..Len(combined_data.extended_hourly_usage_history) :
              ~StaleHour(combined_data.extended_hourly_usage_history[i].datetime)

----------------------------------------------------------------------------
(* C6  History accumulation across cycles.  Before the first cycle and     *)
(* after the daily store of every cycle, the stored daily map holds the 180*)
(* most recent dates of all the dates fetched since the empty store, each  *)
(* with the record of the latest window that held it (all_fetched).        *)

DailyAtRest == pc \in {"idle", "store_hourly"}

StoredDaily == IF mercury_daily.kind = "json" THEN mercury_daily.daily_usage ELSE EmptyMap

C6_HistoryAccumulation ==
    DailyAtRest =>
        LET kept == DOMAIN StoredDaily
            all  == DOMAIN all_fetched
        IN /\ kept \subseteq all
           /\ Cardinality(kept) =
                  IF Cardinality(all) > RetentionDays
                  THEN RetentionDays ELSE Cardinality(all)
           /\ \A gone \in all \ kept : \A k \in kept : gone < k
           /\ \A k \in kept : StoredDaily[k] = all_fetched[k]

\* more than 180 dates have been fetched, and a date that the window of the
\* running cycle does not hold is still stored
C6_Witness ==
    /\ DailyMerged
    /\ Cardinality(DOMAIN all_fetched) > RetentionDays
    /\ \E k \in DOMAIN mercury_daily.daily_usage :
          k \notin WindowKeys(combined_data.daily_usage_history)
    /\ \E k \in DOMAIN mercury_daily.daily_usage :
          k \in WindowKeys(combined_data.daily_usage_history)

----------------------------------------------------------------------------
(* C8  Sorted publication.  In the mapping a cycle returns and in the      *)
(* mapping last published, extended_daily_usage_history and                *)
(* extended_temperature_history are strictly ascending by calendar date    *)
(* and extended_hourly_usage_history by timestamp; total_historical_days   *)
(* and total_historical_hours are the lengths of the daily and the hourly  *)
(* sequence; daily_list and hourly_list of the documents are ascending.    *)

AscendingByDate(list) ==
    \A i \in 1..(Len(list) - 1) : date_key(list[i].date) < date_key(list[i + 1].date)

AscendingByDatetime(list) ==
    \A i \in 1..(Len(list) - 1) : StrLess(list[i].datetime, list[i + 1].datetime)

SortedSnapshot(snapshot) ==
    /\ AscendingByDate(snapshot.extended_daily_usage_history)
    /\ AscendingByDate(snapshot.extended_temperature_history)
    /\ AscendingByDatetime(snapshot.extended_hourly_usage_history)
    /\ snapshot.total_historical_days = Len(snapshot.extended_daily_usage_history)
    /\ snapshot.total_historical_hours = Len(snapshot.extended_hourly_usage_history)

C8_SortedPublication ==
    /\ SortedSnapshot(data)
    /\ pc = "return" => SortedSnapshot(combined_data)
    /\ mercury_daily.kind = "json" =>
          \A i \in 1..(Len(mercury_daily.daily_list) - 1) :
              mercury_daily.daily_list[i].date < mercury_daily.daily_list[i + 1].date
    /\ mercury_hourly.kind = "json" =>
          AscendingByDatetime(mercury_hourly.hourly_list)

\* a snapshot with the 180 days the trim left has been published
C8_Witness ==
    /\ pc = "idle"
    /\ data.has_extended
    /\ data.total_historical_days = RetentionDays
    /\ date_key(data.extended_daily_usage_history[1].date) = 3
    /\ date_key(data.extended_daily_usage_history[RetentionDays].date) = RetentionDays + 2

----------------------------------------------------------------------------
(* C9  Aggregate correctness.  The summary of a daily document is computed *)
(* from the map the document stores (after merge and trim).  As the spec   *)
(* words it, the totals, the average and the cost per kWh are the exact    *)
(* sums and quotients; the code rounds the totals and the averages to two  *)
(* decimals and the cost per kWh to three.                                 *)

\* sum of a field over the stored days, taken from the map and not the list
StoredConsumption(daily_usage) ==
    LET keys == SortedDates(DOMAIN daily_usage)
    IN SumSeq([i \in 1..Len(keys) |-> daily_usage[keys[i]].consumption], 1, Len(keys))

StoredCost(daily_usage) ==
    LET keys == SortedDates(DOMAIN daily_usage)
    IN SumSeq([i \in 1..Len(keys) |-> daily_usage[keys[i]].cost], 1, Len(keys))

Abs(x) == IF x < 0 THEN -x ELSE x

\* the claim as stated: exact equalities (totals in 1/100, records in 1/1000)
C9_ExactAggregates ==
    mercury_daily.kind = "json" =>
        LET summary == mercury_daily.summary
            days == Cardinality(DOMAIN mercury_daily.daily_usage)
            consumption == StoredConsumption(mercury_daily.daily_usage)
            cost == StoredCost(mercury_daily.daily_usage)
        IN /\ summary.total_days = days
           /\ 10 * summary.total_consumption = consumption
           /\ 10 * summary.total_cost = cost
           /\ 10 * days * summary.average_daily_consumption = consumption
           /\ summary.cost_per_kwh * consumption = 1000 * cost

\* amended: each value is the exact one rounded to the nearest 1/100 (the
\* cost per kWh to the nearest 1/1000), and 0 where the divisor is 0
C9_RoundedAggregates ==
    mercury_daily.kind = "json" =>
        LET summary == mercury_daily.summary
            days == Cardinality(DOMAIN mercury_daily.daily_usage)
            consumption == StoredConsumption(mercury_daily.daily_usage)
            cost == StoredCost(mercury_daily.daily_usage)
        IN /\ summary.total_days = days
           /\ 2 * Abs(10 * summary.total_consumption - consumption) <= 10
           /\ 2 * Abs(10 * summary.total_cost - cost) <= 10
           /\ 2 * Abs(10 * days * summary.average_daily_consumption - consumption)
                  <= 10 * days
           /\ days = 0 => summary.average_daily_consumption = 0
           /\ 2 * Abs(summary.cost_per_kwh * consumption - 1000 * cost) <= consumption
           /\ consumption = 0 => summary.cost_per_kwh = 0

\* a document whose sum, average and cost per kWh all fall between two
\* representable values
C9_Witness ==
    /\ DailyMerged
    /\ LET days == Cardinality(DOMAIN mercury_daily.daily_usage)
           consumption == StoredConsumption(mercury_daily.daily_usage)
           cost == StoredCost(mercury_daily.daily_usage)
       IN /\ days > 1
          /\ consumption % 10 # 0
          /\ consumption % (10 * days) # 0
          /\ (1000 * cost) % consumption # 0

----------------------------------------------------------------------------
(* C7  Atomic save.  At every point of a cycle, a failed write included,   *)
(* each document holds a complete content (the previous one or the newly   *)
(* merged one): none is ever truncated or partially written.  The code     *)
(* opens the file with mode 'w', which empties it, and then dumps into it. *)

C7_AtomicSave ==
    /\ mercury_daily.kind # "partial"
    /\ mercury_hourly.kind # "partial"

----------------------------------------------------------------------------
(* C10  Auth-expiry retry count.  With an upstream whose data calls signal *)
(* token expiry on every call, a cycle (usage fetch, then bill-summary     *)
(* fetch) re-authenticates exactly once in total.  In the code each of the *)
(* two fetches counts its own retries.                                     *)

C10_ReauthenticatesOncePerCycle ==
    (upstream = "expiring" /\ api_pc = "fetched") => reauthentications = 1


----------------------------------------------------------------------------
(* C18  Idempotent authenticate.  When authenticate() is called with the   *)
(* flag set and a client that is logged in, it returns true, calls no      *)
(* login, makes no client, raises nothing, and leaves _authenticated and   *)
(* _client as they were: the adapter is in the state it was in before the  *)
(* call, however often it is called.                                       *)

AlreadyAuthenticated ==
    /\ auth_trace.called
    /\ auth_trace.pre_authenticated
    /\ auth_trace.pre_client = "logged_in"

C18_IdempotentAuthenticate ==
    AlreadyAuthenticated =>
        /\ auth_trace.result.success
        /\ auth_trace.result.logged_in = 0
        /\ auth_trace.result.constructed = 0
        /\ ~auth_trace.result.raised
        /\ auth_trace.result.authenticated = auth_trace.pre_authenticated
        /\ auth_trace.result.client = auth_trace.pre_client
        /\ authenticated = auth_trace.pre_authenticated

\* authenticate() was called on an authenticated adapter whose upstream
\* would have refused a login
C18_Witness ==
    /\ AlreadyAuthenticated
    /\ auth_trace.login = "none"
    /\ upstream = "unreliable"
    /\ api_pc = "idle"

----------------------------------------------------------------------------
(* C19  authenticate() never raises.  Whatever the constructor and         *)
(* client.login do, no exception leaves authenticate(); when the           *)
(* constructor or login raises, or login returns and the client is not     *)
(* logged in, it returns false and _authenticated is false afterwards; it  *)
(* returns true only with a client that is logged in.                      *)

LoginFailures == {"not_logged_in", "login_raises", "construct_raises"}

C19_AuthenticateNeverRaises ==
    auth_trace.called =>
        /\ ~auth_trace.result.raised
        /\ authenticated = auth_trace.result.authenticated
        /\ auth_trace.login \in LoginFailures =>
              /\ ~auth_trace.result.success
              /\ ~auth_trace.result.authenticated
        /\ auth_trace.result.success =>
              /\ auth_trace.result.client = "logged_in"
              /\ auth_trace.result.authenticated

\* login raised in an authenticate() call that found the flag set (the
\* session had lapsed)
C19_Witness ==
    /\ auth_trace.called
    /\ auth_trace.pre_authenticated
    /\ auth_trace.login = "login_raises"
    /\ ~authenticated


----------------------------------------------------------------------------
(* C12  Bounded retry and termination.  Whatever the upstream calls and    *)
(* the logins do, each run of get_usage_data, get_bill_summary,            *)
(* get_weekly_summary, get_monthly_summary and get_usage_content passes    *)
(* through its try block at most twice and calls authenticate() at most    *)
(* twice, _retry_count never exceeds 1, every operation that was called    *)
(* returns, and every cycle that started returns its mapping.              *)

FetchOperations ==
    {"get_usage_data", "get_bill_summary"} \cup SummaryOperations

BoundedRetry ==
    /\ retry_count <= 1
    /\ operation.name \in FetchOperations =>
          /\ operation.attempts <= 2
          /\ operation.authenticate_calls <= 2
          /\ operation.reauthentications <= 1

\* a cycle or a summary operation is under way
Running == pc # "idle" \/ api_pc # "idle"

\* nothing is under way, and the mapping of the last cycle that started
\* has been returned
Returned == pc = "idle" /\ api_pc = "idle" /\ published_cycle = cycle

C12_BoundedRetryAndTermination ==
    /\ []BoundedRetry
    /\ Running ~> Returned

\* a summary operation met expiry twice: it authenticated at its entry and
\* once more, went twice through its calls, and returned {}
C12_Witness ==
    /\ operation.name = "get_monthly_summary"
    /\ operation.attempts = 2
    /\ operation.authenticate_calls = 2
    /\ operation.returned = "empty"
    /\ api_pc = "idle"
    /\ retry_count = 0


----------------------------------------------------------------------------
(* C13  Auth expiry is recoverable for every fetch.  When an upstream call *)
(* of a fetch operation (account data, daily usage, hourly usage, monthly  *)
(* usage, the bill call, a summary call) signals expiry in the first pass  *)
(* of the operation, the operation re-authenticates; it does not return    *)
(* with that call degraded to nothing and no re-authentication made.       *)

OperationReturned == operation.returned \in {"data", "empty"}

C13_ExpiryRecoverable ==
    (/\ OperationReturned
     /\ operation.attempts = 1
     /\ \E n \in CallNames : operation.calls[n] = "expired")
        => operation.reauthentications = 1

----------------------------------------------------------------------------
(* C17  Per-category failure isolation.  When exactly one of the calls for *)
(* daily, hourly and monthly usage fails in get_usage_data (it returns     *)
(* nothing or raises), the other two are still issued and get_usage_data   *)
(* returns their data and not {}.                                          *)

CallFailures == {"empty", "expired", "error", "unavailable"}

UsageCategories == {"usage", "hourly", "monthly"}

C17_CategoryIsolation ==
    (/\ api_pc = "bill_enter"
     /\ retry_count = 0
     /\ operation.name = "get_usage_data"
     /\ OperationReturned
     /\ operation.calls.account = "ok")
        => \A failed \in UsageCategories :
              (/\ operation.calls[failed] \in CallFailures
               /\ \A other \in UsageCategories \ {failed} :
                     operation.calls[other] \notin CallFailures)
                  => /\ \A other \in UsageCategories \ {failed} :
                           operation.calls[other] = "ok"
                     /\ usage_returned # "empty"

----------------------------------------------------------------------------
(* C20  Authentication precedes every fetch.  No upstream data call is     *)
(* issued while _authenticated is unset or there is no client: in every    *)
(* pass through a try block the flag is set and the client exists, and an  *)
(* operation whose authenticate() call at the entry failed returns {} and  *)
(* has issued no call.                                                     *)

FetchPositions == {"usage_fetch", "bill_fetch", "summary_fetch"}

C20_AuthenticationPrecedesFetch ==
    /\ ~operation.unauthenticated_calls
    /\ api_pc \in FetchPositions => authenticated /\ client # "None"
    /\ (operation.name # "none" /\ operation.attempts = 0) =>
          \A n \in CallNames : operation.calls[n] = "not_called"
    /\ (operation.attempts = 0 /\ operation.returned = "empty") =>
          /\ operation.authenticate_calls = 1
          /\ ~authenticated

\* a fetch operation was called on an adapter without a session, its
\* authenticate() call failed, and it returned {} without a call
C20_Witness ==
    /\ operation.name = "get_bill_summary"
    /\ operation.attempts = 0
    /\ operation.authenticate_calls = 1
    /\ operation.returned = "empty"
    /\ api_pc = "fetched"
    /\ bill_returned = "empty"


----------------------------------------------------------------------------
(* How a cycle ended: nothing runs, and what its two fetches returned is   *)
(* still recorded                                                          *)

CycleEnded == pc = "idle" /\ api_pc = "idle" /\ usage_returned # "none"

----------------------------------------------------------------------------
(* C11  Repeated auth expiry fails the cycle.  A cycle in which an except  *)
(* clause saw an expiry after an earlier expiry of the same cycle ends     *)
(* without publishing a mapping: coordinator.data is not the return value  *)
(* of that cycle.                                                          *)

C11_SecondExpiryFailsCycle ==
    (CycleEnded /\ cycle_trace.expiry_seen_again) => published_cycle # cycle

----------------------------------------------------------------------------
(* C14  Authentication failure fails the cycle.  A cycle whose first       *)
(* authenticate() call, at the entry of get_usage_data, returned false     *)
(* ends without publishing a mapping.                                      *)

C14_AuthFailureFailsCycle ==
    (CycleEnded /\ cycle_trace.first_authenticate = "failed")
        => published_cycle # cycle

----------------------------------------------------------------------------
(* C15  Last-known-good preservation.  When a cycle in which               *)
(* authentication failed or get_usage_data returned nothing ends, and a    *)
(* mapping with usage metrics had been published before, coordinator.data  *)
(* stays that mapping and the sensors of usage metrics keep their values.  *)

FailingCycle ==
    \/ cycle_trace.first_authenticate = "failed"
    \/ usage_returned = "empty"

C15_LastKnownGood ==
    [][(pc = "return" /\ FailingCycle /\ data.has_metrics)
          => /\ data' = data
             /\ native_value(data') = native_value(data)]_vars

----------------------------------------------------------------------------
(* C16  Billing failure isolation.  When get_bill_summary returned nothing *)
(* (its call raised, returned nothing, or the client has no such method)   *)
(* and get_usage_data returned data, the cycle publishes its mapping with  *)
(* the usage metrics and the history keys and without bill keys, and the   *)
(* daily and the hourly store hold the fetched day and hour, which are in  *)
(* the published extended history.                                         *)

BillingFailed == CycleEnded /\ usage_returned # "empty" /\ bill_returned = "empty"

C16_BillingFailureIsolation ==
    BillingFailed =>
        /\ published_cycle = cycle
        /\ data.has_metrics /\ data.has_daily /\ data.has_temp /\ data.has_hourly
        /\ native_value(data) = "value"
        /\ ~data.has_bill
        /\ mercury_daily.kind = "json"
        /\ 1 \in DOMAIN mercury_daily.daily_usage
        /\ mercury_daily.daily_usage[1].consumption = 1000
        /\ 1 \in DOMAIN mercury_daily.temperature
        /\ data.has_extended
        /\ \E i \in 1..Len(data.extended_daily_usage_history) :
              date_key(data.extended_daily_usage_history[i].date) = 1
        /\ mercury_hourly.kind = "json"
        /\ usage_returned = "data" =>
              /\ HKey(FirstNow - 1, "naive") \in DOMAIN mercury_hourly.hourly_usage
              /\ data.has_extended_hourly
              /\ Len(data.extended_hourly_usage_history) = 1

\* a healthy upstream whose bill fetch returned nothing in the first cycle
C16_Witness ==
    /\ BillingFailed
    /\ usage_returned = "data"
    /\ upstream = "healthy"
    /\ cycle = 1
    /\ ~data.has_bill
    /\ data.total_historical_days = 1


----------------------------------------------------------------------------
(* C21  Corrupt or absent storage is non-fatal on read.  When a store      *)
(* finds its document absent or not parseable, it loads empty maps, goes   *)
(* on to write, and the document it builds is the one built from the fresh *)
(* window alone: its keys are keys of the window and carry the window's    *)
(* records, all of them when the window is within the retention.           *)

DailyStoreStarts == pc = "store_daily" /\ combined_data.has_daily

HourlyStoreStarts == pc = "store_hourly" /\ combined_data.has_hourly

C21_DailyFromFreshAlone ==
    (DailyStoreStarts /\ mercury_daily.kind # "json") =>
        LET window == combined_data.daily_usage_history
        IN /\ pc' = "write_daily"
           /\ existing_daily_data' = EmptyMap
           /\ existing_temp_data' = EmptyMap
           /\ json_data' = DailyJson(EmptyMap, EmptyMap, combined_data)
           /\ DOMAIN json_data'.daily_usage \subseteq WindowKeys(window)
           /\ Cardinality(WindowKeys(window)) <= RetentionDays =>
                 DOMAIN json_data'.daily_usage = WindowKeys(window)
           /\ \A k \in DOMAIN json_data'.daily_usage :
                 json_data'.daily_usage[k] = day_info(window[LastWithKey(window, k)])
           /\ DOMAIN json_data'.temperature
                 \subseteq WindowKeys(combined_data.temperature_history)

C21_HourlyFromFreshAlone ==
    (HourlyStoreStarts /\ mercury_hourly.kind # "json") =>
        LET window == combined_data.hourly_usage_history
        IN /\ pc' = "write_hourly"
           /\ existing_hourly_data' = EmptyMap
           /\ json_data' = HourlyJson(EmptyMap, combined_data, now_utc)
           /\ DOMAIN json_data'.hourly_usage \subseteq HourWindowKeys(window)
           /\ \A k \in DOMAIN json_data'.hourly_usage :
                 json_data'.hourly_usage[k] =
                     hour_info(window[LastWithHourKey(window, k)])

C21_CorruptStorageNonFatal ==
    /\ [][C21_DailyFromFreshAlone]_vars
    /\ [][C21_HourlyFromFreshAlone]_vars

\* a store wrote the fresh window alone although an earlier cycle had
\* fetched a day that is not in it: the write of that cycle had failed
C21_Witness ==
    /\ pc = "store_hourly"
    /\ combined_data.has_daily
    /\ combined_data.daily_usage_history # <<>>
    /\ mercury_daily.kind = "json"
    /\ existing_daily_data = EmptyMap
    /\ \E k \in DOMAIN all_fetched : k \notin WindowKeys(combined_data.daily_usage_history)
    /\ DOMAIN mercury_daily.daily_usage = WindowKeys(combined_data.daily_usage_history)


----------------------------------------------------------------------------
(* C22  A failed write does not lose the fresh data from the published     *)
(* snapshot.  When the write of the daily (hourly) document failed in a    *)
(* cycle, every day (hour) of the fresh window is in the extended history  *)
(* of the mapping the cycle returns.                                       *)

DailyWriteFailed ==
    /\ pc = "return"
    /\ combined_data.has_daily
    /\ mercury_daily.kind = "partial"

HourlyWriteFailed ==
    /\ pc = "return"
    /\ combined_data.has_hourly
    /\ mercury_hourly.kind = "partial"

C22_FailedWriteKeepsFresh ==
    /\ DailyWriteFailed =>
          \A k \in WindowKeys(combined_data.daily_usage_history) :
                \E i \in 1..Len(combined_data.extended_daily_usage_history) :
                    date_key(combined_data.extended_daily_usage_history[i].date) = k
    /\ HourlyWriteFailed =>
          \A k \in HourWindowKeys(combined_data.hourly_usage_history) :
                \E i \in 1..Len(combined_data.extended_hourly_usage_history) :
                    combined_data.extended_hourly_usage_history[i].datetime = k


(***************************************************************************)
(* The keys of the published mapping.                                      *)
(***************************************************************************)
\* the keys _process_electricity_usage sets besides the two history keys
UsageMetricKeys ==
    {"total_usage", "energy_usage", "current_bill", "latest_daily_usage",
     "latest_daily_cost", "average_temperature", "current_temperature"}

\* the keys get_usage_data adds after _process_electricity_usage returned:
\* those of the hourly and of the monthly call, customer_id and last_updated
UsageCallKeys ==
    {"hourly_usage", "hourly_usage_history", "monthly_usage",
     "monthly_usage_history", "customer_id", "last_updated"}

\* the keys of _normalize_bill_data as combined_data[f"bill_{key}"]
BillPrefixed ==
    {"bill_account_id", "bill_balance", "bill_due_amount", "bill_bill_date",
     "bill_due_date", "bill_overdue_amount", "bill_payment_type",
     "bill_payment_method", "bill_bill_url", "bill_balance_status",
     "bill_statement_total", "bill_electricity_amount", "bill_gas_amount",
     "bill_broadband_amount", "bill_statement_details"}

\* list(combined_data.keys()) at the cycle's return: the copy of usage_data,
\* the prefixed bill keys, then the two updates from the files
combined_data_keys(mapping) ==
    (IF mapping.has_metrics THEN UsageMetricKeys ELSE {})
        \cup (IF mapping.has_daily THEN {"daily_usage_history"} ELSE {})
        \cup (IF mapping.has_temp THEN {"temperature_history"} ELSE {})
        \cup (IF mapping.has_hourly THEN UsageCallKeys ELSE {})
        \cup (IF mapping.has_bill THEN BillPrefixed ELSE {})
        \cup (IF mapping.has_extended
              THEN {"extended_daily_usage_history",
                    "extended_temperature_history", "total_historical_days"}
              ELSE {})
        \cup (IF mapping.has_extended_hourly
              THEN {"extended_hourly_usage_history", "total_historical_hours"}
              ELSE {})

(***************************************************************************)
(* C23  Composition completeness.                                          *)
(***************************************************************************)
\* both fetches of the cycle returned data and the cycle is at its return
FullCycleAtReturn ==
    /\ pc = "return"
    /\ combined_data.has_metrics
    /\ combined_data.has_hourly
    /\ combined_data.has_bill

\* C23: the mapping a successful cycle publishes has the bill summary fields,
\* the weekly and monthly summary metrics (monthly_billing_progress_percent,
\* monthly_usage_cost, weekly_usage_cost), customer_id and last_updated.
C23_CompositionComplete ==
    FullCycleAtReturn =>
        /\ BillPrefixed \subseteq combined_data_keys(combined_data)
        /\ {"customer_id", "last_updated"}
               \subseteq combined_data_keys(combined_data)
        /\ {"monthly_billing_progress_percent", "monthly_usage_cost",
            "weekly_usage_cost"} \subseteq combined_data_keys(combined_data)


(***************************************************************************)
(* C24  Cycle ordering of the store.                                       *)
(***************************************************************************)
\* the positions of a cycle between its fetches and its publication
StorePositions ==
    {"store_daily", "write_daily", "store_hourly", "write_hourly",
     "load_daily", "load_hourly", "return"}

\* the daily snapshot lists the keys of the stored map in ascending order
\* with the stored values
SnapshotOfDaily(list, daily_usage) ==
    /\ Len(list) = Cardinality(DOMAIN daily_usage)
    /\ {date_key(list[i].date) : i \in 1..Len(list)} = DOMAIN daily_usage
    /\ AscendingByDate(list)
    /\ \A i \in 1..Len(list) :
          /\ list[i].consumption = daily_usage[date_key(list[i].date)].consumption
          /\ list[i].cost = daily_usage[date_key(list[i].date)].cost

SnapshotOfHourly(list, hourly_usage) ==
    /\ Len(list) = Cardinality(DOMAIN hourly_usage)
    /\ {list[i].datetime : i \in 1..Len(list)}
           = {hourly_usage[k].timestamp : k \in DOMAIN hourly_usage}
    /\ \A i \in 1..Len(list) : \E k \in DOMAIN hourly_usage :
          /\ list[i].datetime = hourly_usage[k].timestamp
          /\ list[i].consumption = hourly_usage[k].consumption

\* every step that reads, writes, reads back or publishes does so at its
\* place in the cycle and from what the earlier steps of that cycle left
C24_StepsInOrder ==
    \* the stored maps are read where the store starts, from the file
    /\ (existing_daily_data' # existing_daily_data
            /\ existing_daily_data' # EmptyMap)
          => /\ pc = "store_daily" /\ mercury_daily.kind = "json"
             /\ existing_daily_data' = mercury_daily.daily_usage
    /\ (existing_hourly_data' # existing_hourly_data
            /\ existing_hourly_data' # EmptyMap)
          => /\ pc = "store_hourly" /\ mercury_hourly.kind = "json"
             /\ existing_hourly_data' = mercury_hourly.hourly_usage
    \* a document is written after the read, and is the merge of what was
    \* read with the window fetched in this cycle
    /\ (mercury_daily' # mercury_daily /\ mercury_daily'.kind = "json")
          => /\ pc = "write_daily" /\ pc' = "store_hourly"
             /\ combined_data.has_daily
             /\ DOMAIN mercury_daily'.daily_usage =
                   DOMAIN TrimToRetention(
                       [k \in DOMAIN existing_daily_data
                              \cup WindowKeys(combined_data.daily_usage_history)
                          |-> k])
    /\ (mercury_hourly' # mercury_hourly /\ mercury_hourly'.kind = "json")
          => /\ pc = "write_hourly" /\ pc' = "load_daily"
             /\ combined_data.has_hourly
    \* the snapshot is read back after both stores, from the files
    /\ combined_data'.has_extended # combined_data.has_extended
          => \/ /\ pc = "load_daily" /\ mercury_daily.kind = "json"
                /\ SnapshotOfDaily(combined_data'.extended_daily_usage_history,
                                   mercury_daily.daily_usage)
             \/ pc \in {"idle", "return"}
    /\ combined_data'.has_extended_hourly # combined_data.has_extended_hourly
          => \/ /\ pc = "load_hourly" /\ mercury_hourly.kind = "json"
                /\ SnapshotOfHourly(combined_data'.extended_hourly_usage_history,
                                    mercury_hourly.hourly_usage)
             \/ pc \in {"idle", "return"}
    \* publication is the last step and hands over the snapshot read back
    /\ published_cycle' # published_cycle
          => /\ pc = "return" /\ pc' = "idle"
             /\ published_cycle' = cycle
             /\ data'.has_extended = combined_data.has_extended
             /\ data'.extended_daily_usage_history
                    = combined_data.extended_daily_usage_history
             /\ data'.extended_hourly_usage_history
                    = combined_data.extended_hourly_usage_history
    \* the files change only between the fetches and the publication
    /\ (mercury_daily' # mercury_daily \/ mercury_hourly' # mercury_hourly)
          => pc \in StorePositions /\ published_cycle < cycle

\* a cycle starts its store with nothing in memory of an earlier cycle
NothingCached ==
    pc = "store_daily" =>
        /\ existing_daily_data = EmptyMap
        /\ existing_temp_data = EmptyMap
        /\ existing_hourly_data = EmptyMap
        /\ json_data = NoFile
        /\ ~combined_data.has_extended
        /\ ~combined_data.has_extended_hourly

\* at the return of a cycle that wrote a document, the snapshot is the
\* ascending expansion of that document
SnapshotOfThisCycle ==
    pc = "return" =>
        /\ (combined_data.has_daily /\ mercury_daily.kind = "json")
              => /\ combined_data.has_extended
                 /\ SnapshotOfDaily(combined_data.extended_daily_usage_history,
                                    mercury_daily.daily_usage)
                 /\ Cardinality(DOMAIN mercury_daily.daily_usage) < RetentionDays
                       => WindowKeys(combined_data.daily_usage_history)
                              \subseteq DOMAIN mercury_daily.daily_usage
        /\ (combined_data.has_hourly /\ mercury_hourly.kind = "json")
              => /\ combined_data.has_extended_hourly
                 /\ SnapshotOfHourly(combined_data.extended_hourly_usage_history,
                                     mercury_hourly.hourly_usage)

\* C24: in every cycle the store is read before the merge, the merged store
\* is written before the snapshot is read back, both after the fetches and
\* before publication; when the write succeeds the published extended
\* history is the ascending expansion of the maps written in that cycle, and
\* nothing of the store is kept in memory from one cycle to the next.
C24_StoreOrdering ==
    /\ [][C24_StepsInOrder]_vars
    /\ [](NothingCached /\ SnapshotOfThisCycle)

\* a second cycle at its return, whose write added a day to a document that
\* the first cycle had written, with the snapshot read back from it
C24_Witness ==
    /\ pc = "return"
    /\ cycle = 2
    /\ combined_data.has_daily
    /\ mercury_daily.kind = "json"
    /\ existing_daily_data # EmptyMap
    /\ \E k \in WindowKeys(combined_data.daily_usage_history) :
          k \notin DOMAIN existing_daily_data
    /\ combined_data.has_extended
    /\ Len(combined_data.extended_daily_usage_history)
           > Cardinality(DOMAIN existing_daily_data)


----------------------------------------------------------------------------
(* Exceptions in the update cycle: the try block of _async_update_data     *)
(* (coordinator.py lines 48-111) and its except clause (lines 112-114).    *)
(*                                                                         *)
(* An exception is a class derived from Exception and its message.         *)

\* the statements of the try block in their order; caught tells whether an
\* exception raised there is caught by a handler of the called function
\* (the except clauses of get_usage_data, get_bill_summary, authenticate's
\* try block, the two stores and the two loaders) before it reaches the
\* cycle's own except clause
try_block ==
    << [site |-> "authenticate: is_logged_in",     caught |-> FALSE],
       [site |-> "api.get_usage_data",             caught |-> TRUE],
       [site |-> "api.get_bill_summary",           caught |-> TRUE],
       [site |-> "combine",                        caught |-> FALSE],
       [site |-> "_store_daily_data_json",         caught |-> TRUE],
       [site |-> "_store_hourly_data_json",        caught |-> TRUE],
       [site |-> "_load_extended_historical_data", caught |-> TRUE],
       [site |-> "combined_data.update",           caught |-> FALSE],
       [site |-> "_load_extended_hourly_data",     caught |-> TRUE],
       [site |-> "combined_data.update hourly",    caught |-> FALSE] >>

Exceptions ==
    [type : {"ValueError", "OSError"},
     message : {"Tokens expired", "No space left on device"}]

\* an except clause that raises UpdateFailed with a fixed message
UpdateFailedWithoutMessage(exception) ==
    [type    |-> "UpdateFailed",
     message |-> <<"Error communicating with API">>,
     cause   |-> exception]

\* raise UpdateFailed(f"Error communicating with API: {exception}") from
\* exception; the message is the sequence of the parts of the f-string
UpdateFailed(exception) ==
    [type    |-> "UpdateFailed",
     message |-> <<"Error communicating with API: ", exception.message>>,
     cause   |-> exception]

\* the position after the statement at update_pc; 0 after the last one
AfterStatement == IF update_pc = Len(try_block) THEN 0 ELSE update_pc + 1

\* _async_update_data is called
UpdateStarts ==
    /\ update_pc = 0
    /\ update_pc' = 1
    /\ absorbed' = {}
    /\ propagated' = NoException
    /\ UNCHANGED <<storeVars, apiVars, entryVars, callVars, hostVars>>

\* the statement runs to its end; after the last one the cycle returns
StatementCompletes ==
    /\ update_pc \in 1..Len(try_block)
    /\ update_pc' = AfterStatement
    /\ UNCHANGED <<absorbed, propagated>>
    /\ UNCHANGED <<storeVars, apiVars, entryVars, callVars, hostVars>>

\* an exception is raised in the statement: the called function catches and
\* logs it and the cycle goes on, or the cycle's except clause takes it
StatementRaises ==
    /\ update_pc \in 1..Len(try_block)
    /\ \E exception \in Exceptions :
          IF try_block[update_pc].caught
          THEN /\ absorbed' = absorbed \cup {try_block[update_pc].site}
               /\ update_pc' = AfterStatement
               /\ UNCHANGED propagated
          ELSE /\ propagated' = UpdateFailed(exception)
               /\ update_pc' = 0
               /\ UNCHANGED absorbed
    /\ UNCHANGED <<storeVars, apiVars, entryVars, callVars, hostVars>>

InitUpdate ==
    /\ StoreInit
    /\ varies = "daily"
    /\ ApiInit
    /\ upstream = "healthy"
    /\ EntryLoaded
    /\ UpdateIdle
    /\ HostIdle
    /\ CallIdle

NextUpdate ==
    \/ UpdateStarts
    \/ StatementCompletes
    \/ StatementRaises

SpecUpdate == InitUpdate /\ [][NextUpdate]_vars

(***************************************************************************)
(* C25  Uniform error translation.                                         *)
(***************************************************************************)
\* C25: the only exception a cycle propagates is UpdateFailed, its message
\* contains the message of the exception it wraps; every other exception
\* raised in the cycle was absorbed where it was raised.
C25_UniformErrorTranslation ==
    /\ propagated # NoException =>
          /\ propagated.type = "UpdateFailed"
          /\ propagated.cause \in Exceptions
          /\ \E i \in DOMAIN propagated.message :
                propagated.message[i] = propagated.cause.message
    /\ \A site \in absorbed :
          \E i \in DOMAIN try_block :
              try_block[i].site = site /\ try_block[i].caught

\* a cycle that absorbed the exception of a fetch and of a store and then
\* failed with UpdateFailed
C25_Witness ==
    /\ update_pc = 0
    /\ propagated # NoException
    /\ propagated.type = "UpdateFailed"
    /\ "api.get_usage_data" \in absorbed
    /\ "_store_daily_data_json" \in absorbed


----------------------------------------------------------------------------
(* Setting up the config entry: async_setup_entry (__init__.py lines       *)
(* 62-103) and the sensor platform's async_setup_entry (sensor.py lines    *)
(* 19-38).  The first refresh is the first update cycle; it returns when   *)
(* that cycle has published, and it raises when the cycle did not.  Once   *)
(* the sensors are added they listen to the coordinator, which then runs   *)
(* its cycles on schedule.                                                 *)

\* a setup that gives up when the first refresh raised
SetupAbortsOnFailure(refresh) ==
    [registered |-> refresh = "returns",
     forwarded  |-> refresh = "returns",
     returns    |-> IF refresh = "returns" THEN "True" ELSE "raised"]

\* async_setup_entry from its try statement on (lines 86-103): the except
\* clause logs what the first refresh raised, then the coordinator is put
\* under the entry id, the setup is forwarded to the sensor platform and
\* True is returned
async_setup_entry(refresh) ==
    [registered |-> TRUE, forwarded |-> TRUE, returns |-> "True"]

\* lines 64-84: hass.data.setdefault(DOMAIN, {}) and the coordinator is made
SetupStarts ==
    /\ setup_pc = "not_loaded"
    /\ setup_pc' = "first_refresh"
    /\ hass_data' = {}
    /\ UNCHANGED <<entities, setup_returned, first_refresh>>
    /\ UNCHANGED <<storeVars, apiVars, updateVars, callVars, hostVars>>

\* await coordinator.async_config_entry_first_refresh(): the first cycle
FirstRefreshRuns ==
    /\ setup_pc = "first_refresh"
    /\ published_cycle = 0
    /\ Next

\* the first cycle has published and the first refresh returns
FirstRefreshReturns ==
    /\ setup_pc = "first_refresh"
    /\ pc = "idle"
    /\ published_cycle = 1
    /\ setup_pc' = "forward"
    /\ first_refresh' = "returns"
    /\ UNCHANGED <<hass_data, entities, setup_returned>>
    /\ UNCHANGED <<storeVars, apiVars, updateVars, callVars, hostVars>>

\* the first refresh raises and coordinator.data stays None
FirstRefreshRaises ==
    /\ setup_pc = "first_refresh"
    /\ pc = "idle"
    /\ cycle = 0
    /\ cycle' = 1
    /\ setup_pc' = "forward"
    /\ first_refresh' = "raises"
    /\ UNCHANGED <<hass_data, entities, setup_returned>>
    /\ UNCHANGED <<otherStoreVars, apiVars, updateVars, callVars, hostVars>>

\* lines 95-103, and sensor.py lines 25-38: one MercurySensor for every
\* sensor_type in SENSOR_TYPES
SetupForwards ==
    /\ setup_pc = "forward"
    /\ LET setup == async_setup_entry(first_refresh)
       IN /\ hass_data' = IF setup.registered THEN hass_data \cup {"entry_id"}
                          ELSE hass_data
          /\ entities' = IF setup.forwarded THEN SENSOR_TYPES ELSE entities
          /\ setup_returned' = setup.returns
    /\ setup_pc' = "loaded"
    /\ UNCHANGED first_refresh
    /\ UNCHANGED <<storeVars, apiVars, updateVars, callVars, hostVars>>

\* a scheduled refresh of the coordinator the sensors listen to
ScheduledRefresh ==
    /\ setup_pc = "loaded"
    /\ entities # {}
    /\ Next

InitSetup ==
    /\ StoreInit
    /\ ApiInit
    /\ upstream = "healthy"
    /\ setup_pc = "not_loaded"
    /\ hass_data = {}
    /\ entities = {}
    /\ setup_returned = "none"
    /\ first_refresh = "none"
    /\ UpdateIdle
    /\ HostIdle
    /\ CallIdle

NextSetup ==
    \/ SetupStarts
    \/ FirstRefreshRuns
    \/ FirstRefreshReturns
    \/ FirstRefreshRaises
    \/ SetupForwards
    \/ ScheduledRefresh

SpecSetup == InitSetup /\ [][NextSetup]_vars

(***************************************************************************)
(* C26  Setup survives a failed first refresh.                             *)
(***************************************************************************)
\* the setup of an entry whose first refresh raised has ended
SetUpAfterFailure == setup_pc = "loaded" /\ first_refresh = "raises"

C26_SetupCompletes ==
    SetUpAfterFailure =>
        /\ "entry_id" \in hass_data
        /\ entities = SENSOR_TYPES
        /\ Cardinality(entities) = Cardinality(SENSOR_TYPES)
        /\ setup_returned = "True"

\* a cycle that publishes after the setup leaves the entry as it was set up
\* and hands the sensors the mapping it composed
C26_LaterCycleReaches ==
    (SetUpAfterFailure /\ published_cycle' # published_cycle)
        => /\ UNCHANGED entryVars
           /\ data'.has_metrics = combined_data.has_metrics
           /\ (combined_data.has_metrics => native_value(data') = "value")

\* C26: if the first refresh raises, async_setup_entry still registers the
\* coordinator under the entry id, forwards to the sensor platform, which
\* creates one sensor per SENSOR_TYPES key, and returns True; a later
\* successful cycle makes the sensors report values without reconfiguration.
C26_SetupSurvivesFailedRefresh ==
    /\ []C26_SetupCompletes
    /\ [][C26_LaterCycleReaches]_vars

\* after a first refresh that raised, the second cycle has published the
\* metrics and a metric sensor reads a value
C26_Witness ==
    /\ SetUpAfterFailure
    /\ pc = "idle"
    /\ cycle = 2
    /\ published_cycle = 2
    /\ data.has_metrics
    /\ native_value(data) = "value"
    /\ "energy_usage" \in entities


----------------------------------------------------------------------------
(* Single calls of the adapter's normalising functions (mercury_api.py).   *)
(*                                                                         *)
(* A Python value is a record tagged by py: None, a number (fixed point:   *)
(* 1/1000 as the upstream sends it, 1/100 after round(x, 2), 1/10 after    *)
(* round(x, 1)), a list, or Missing for a key a dict does not have.        *)

None == [py |-> "None"]

Missing == [py |-> "missing"]

Num(n) == [py |-> "num", v |-> n]

List(items) == [py |-> "list", items |-> items]

\* d.get(key, default): the default is used only when the key is missing
Get(field, default) == IF field = Missing THEN default ELSE field

\* bool(x) of a number, a list or None
Truthy(x) ==
    CASE x.py = "num"  -> x.v # 0
      [] x.py = "list" -> x.items # <<>>
      [] OTHER         -> FALSE

\* round(x, DECIMAL_PLACES) of a number in 1/1000, in 1/100
Round2(x) == Num(RoundDiv(x.v, 10))

\* round(x, TEMP_DECIMAL_PLACES) of a temperature in 1/100 degree, in 1/10
Round1(x) == Num(RoundDiv(x.v, 10))

\* a dict with no key
EmptyDict == [k \in {} |-> None]

\* _process_electricity_usage: the keys are set one after the other and
\* round(None, ...) raises TypeError, which the except clause logs; what
\* was set before is returned
_process_electricity_usage(usage) ==
    LET latest_day == usage.daily_usage.items[Len(usage.daily_usage.items)]
        latest_temp == usage.temperature_data.items[Len(usage.temperature_data.items)]
        rest ==
            ("latest_daily_usage" :>
                 IF Truthy(usage.daily_usage)
                 THEN Get(latest_day.consumption, Num(0)) ELSE Num(0))
            @@ ("latest_daily_cost" :>
                 IF Truthy(usage.daily_usage)
                 THEN Get(latest_day.cost, Num(0)) ELSE Num(0))
            @@ ("average_temperature" :>
                 IF usage.average_temperature # None
                 THEN Round1(usage.average_temperature) ELSE Num(0))
            @@ ("current_temperature" :>
                 IF Truthy(usage.temperature_data)
                 THEN Get(latest_temp.temp, Num(0)) ELSE Num(0))
            @@ ("daily_usage_history" :>
                 IF Truthy(usage.daily_usage) THEN usage.daily_usage
                 ELSE List(<<>>))
            @@ ("temperature_history" :>
                 IF Truthy(usage.temperature_data) THEN usage.temperature_data
                 ELSE List(<<>>))
    IN IF usage.total_usage = None THEN EmptyDict
       ELSE IF usage.average_daily_usage = None
       THEN "total_usage" :> Round2(usage.total_usage)
       ELSE IF usage.total_cost = None
       THEN ("total_usage" :> Round2(usage.total_usage))
            @@ ("energy_usage" :> Round2(usage.average_daily_usage))
       ELSE ("total_usage" :> Round2(usage.total_usage))
            @@ ("energy_usage" :> Round2(usage.average_daily_usage))
            @@ ("current_bill" :> Round2(usage.total_cost))
            @@ rest


\* a dict: usage is the value of its 'usage' key, Missing without the key
Dict(usage) == [py |-> "dict", usage |-> usage]

\* one series of a 'usage' array; data is Missing without the 'data' key
Series(label, series_data) == [label |-> label, data |-> series_data]

\* the series next((u for u in usage_array if u.get('label') == 'actual'),
\* usage_array[0]) picks
ActualUsage(usage_array) ==
    IF \E i \in 1..Len(usage_array) : usage_array[i].label = "actual"
    THEN usage_array[CHOOSE i \in 1..Len(usage_array) :
                        /\ usage_array[i].label = "actual"
                        /\ \A j \in 1..(i - 1) : usage_array[j].label # "actual"]
    ELSE usage_array[1]

\* what the nested structure of a dict gives: <<data>> when the branch
\* returns actual_usage['data'], <<>> when it returns nothing
NestedData(raw_data) ==
    IF /\ raw_data.py = "dict"
       /\ raw_data.usage # Missing
       /\ Truthy(raw_data.usage)
       /\ ActualUsage(raw_data.usage.items).data # Missing
    THEN <<ActualUsage(raw_data.usage.items).data>>
    ELSE <<>>

\* is it a list whose first entry has both 'invoiceFrom' and 'invoiceTo'
BillingPeriods(usage_data) ==
    /\ usage_data.py = "list"
    /\ Len(usage_data.items) > 0
    /\ usage_data.items[1].invoiceFrom # Missing
    /\ usage_data.items[1].invoiceTo # Missing

\* an extraction that finds nothing
ExtractNothing(monthly_usage) == List(<<>>)

\* _extract_monthly_usage_data: usage_data as a list of billing periods,
\* else the nested series of usage_data, of raw_data, of data; else []
_extract_monthly_usage_data(monthly_usage) ==
    IF /\ monthly_usage.usage_data # Missing
       /\ Truthy(monthly_usage.usage_data) \/ monthly_usage.usage_data.py = "dict"
       /\ BillingPeriods(monthly_usage.usage_data)
    THEN monthly_usage.usage_data
    ELSE IF /\ monthly_usage.usage_data # Missing
            /\ NestedData(monthly_usage.usage_data) # <<>>
    THEN NestedData(monthly_usage.usage_data)[1]
    ELSE IF /\ monthly_usage.raw_data # Missing
            /\ NestedData(monthly_usage.raw_data) # <<>>
    THEN NestedData(monthly_usage.raw_data)[1]
    ELSE IF /\ monthly_usage.data # Missing
            /\ NestedData(monthly_usage.data) # <<>>
    THEN NestedData(monthly_usage.data)[1]
    ELSE List(<<>>)

\* the result of an upstream call: it raised, it returned None, or it
\* returned an object with these attributes
Raises == [py |-> "raises"]

Result(total_usage, daily_usage, usage_data, raw_data) ==
    [py |-> "object", total_usage |-> total_usage, daily_usage |-> daily_usage,
     usage_data |-> usage_data, raw_data |-> raw_data, data |-> Missing]

\* _execute_api_call_with_fallback for what api_method returned (or raised)
_execute_api_call_with_fallback(result, usage_key, history_key) ==
    LET fallback == (usage_key :> Num(0)) @@ (history_key :> List(<<>>))
        daily_usage == IF result.daily_usage # Missing /\ Truthy(result.daily_usage)
                       THEN result.daily_usage ELSE List(<<>>)
        extracted == _extract_monthly_usage_data(result)
        history_data ==
            IF history_key # "monthly_usage_history" THEN daily_usage
            ELSE IF ~Truthy(extracted) THEN daily_usage
            ELSE extracted
    IN IF result.py # "object" THEN fallback
       ELSE IF result.total_usage = None THEN fallback
       ELSE (usage_key :> Round2(result.total_usage))
            @@ (history_key :> history_data)

Str(x) == [py |-> "str", v |-> x]

\* get_usage_data, lines 636-662: the processed usage updated with the
\* hourly and the monthly result, customer_id and last_updated
normalized_data(electricity_usage, hourly, monthly) ==
    ("last_updated" :> Str("now"))
    @@ ("customer_id" :> Str("customer"))
    @@ _execute_api_call_with_fallback(monthly, "monthly_usage",
                                       "monthly_usage_history")
    @@ _execute_api_call_with_fallback(hourly, "hourly_usage",
                                       "hourly_usage_history")
    @@ _process_electricity_usage(electricity_usage)


\* a date string of the summary: hours is the instant it names, aware tells
\* whether it carries an offset; BadDate is a string fromisoformat rejects
DateStr(aware, hours) ==
    [py |-> "str", parses |-> TRUE, aware |-> aware, hours |-> hours]

BadDate == [py |-> "str", parses |-> FALSE]

\* a progress that is not clamped
ProgressUnclamped(monthly_summary, now) ==
    LET startDate == monthly_summary.startDate
        endDate == monthly_summary.endDate
    IN IF startDate = Missing \/ endDate = Missing THEN Missing
       ELSE IF ~startDate.parses \/ ~endDate.parses THEN Num(0)
       ELSE IF startDate.aware # endDate.aware THEN Num(0)
       ELSE LET total_days == (endDate.hours - startDate.hours) \div 24
                elapsed_days == (now - startDate.hours) \div 24
            IN IF total_days > 0 /\ elapsed_days >= 0
               THEN Num(RoundDiv(elapsed_days * 1000, total_days))
               ELSE Num(0)

\* normalized["billing_progress_percent"] of
\* _normalize_electricity_summary_data, in 1/10 percent; Missing when the
\* key is not set.  now is datetime.now(start_date.tzinfo) in hours;
\* subtracting an aware and a naive datetime raises TypeError, which the
\* inner except clause turns into 0 as it does a string that does not parse
billing_progress_percent(monthly_summary, now) ==
    LET startDate == monthly_summary.startDate
        endDate == monthly_summary.endDate
    IN IF startDate = Missing \/ endDate = Missing THEN Missing
       ELSE IF ~startDate.parses \/ ~endDate.parses THEN Num(0)
       ELSE IF startDate.aware # endDate.aware THEN Num(0)
       ELSE LET total_days == (endDate.hours - startDate.hours) \div 24
                elapsed_days == (now - startDate.hours) \div 24
            IN IF total_days > 0
               THEN IF elapsed_days <= 0 THEN Num(0)
                    ELSE IF elapsed_days >= total_days THEN Num(1000)
                    ELSE Num(RoundDiv(elapsed_days * 1000, total_days))
               ELSE Num(0)

----------------------------------------------------------------------------
(* The arguments the calls are checked with *)

DayEntries ==
    {[consumption |-> c, cost |-> k] :
         c \in {Missing, None, Num(5000)}, k \in {Missing, Num(1500)}}

TempEntries == {[temp |-> t] : t \in {Missing, None, Num(150)}}

\* the ElectricityUsage objects get_electricity_usage may return
UsageObjects ==
    [total_usage         : {None, Num(12345)},
     average_daily_usage : {None, Num(6172)},
     total_cost          : {None, Num(3704)},
     average_temperature : {None, Num(1525)},
     daily_usage         : {None, List(<<>>)} \cup {List(<<e>>) : e \in DayEntries},
     temperature_data    : {List(<<>>)} \cup {List(<<e>>) : e \in TempEntries}]

HourEntry == [consumption |-> Num(400), cost |-> Num(120)]

HourlyResults ==
    {Raises, None,
     Result(None, List(<<HourEntry>>), Missing, Missing),
     Result(Num(800), List(<<HourEntry, HourEntry>>), Missing, Missing)}

\* entries of the monthly endpoint: a billing period, and an entry without
\* the invoice keys
Period(from) ==
    [invoiceFrom |-> Num(from), invoiceTo |-> Num(from + 30),
     consumption |-> Num(300000)]

PlainEntry ==
    [invoiceFrom |-> Missing, invoiceTo |-> Missing, consumption |-> Num(9000)]

MonthlySeries ==
    {Series("actual", List(<<Period(1), Period(31)>>)),
     Series("actual", List(<<>>)),
     Series("actual", Missing),
     Series("estimate", List(<<PlainEntry>>))}

\* 'usage' arrays of up to two series, at most one of them labelled actual
UsageArrays ==
    {<<>>} \cup {<<a>> : a \in MonthlySeries}
           \cup {p \in MonthlySeries \X MonthlySeries :
                     p[1].label # "actual" \/ p[2].label # "actual"}

\* usage_data of a monthly result: absent, None, a list of entries of one
\* kind, or the raw dict
UsageDataShapes ==
    {Missing, None, List(<<>>), List(<<Period(1)>>),
     List(<<Period(1), Period(31)>>), List(<<PlainEntry>>), Dict(Missing)}
        \cup {Dict(List(a)) : a \in UsageArrays}

\* raw_data of a result: absent, or the response usage_data was taken from
RawDataOf(usage_data) ==
    {Missing} \cup
        CASE usage_data.py = "dict" -> {usage_data}
          [] usage_data.py = "list" ->
                 {Dict(List(<<Series("actual", usage_data)>>))}
          [] OTHER -> {Dict(List(<<Series("actual", List(<<Period(1)>>))>>)),
                       Dict(List(<<Series("estimate", List(<<PlainEntry>>))>>))}

MonthlyResults ==
    {Result(Num(300000), daily_usage, usage_data, raw_data) :
         daily_usage \in {Missing, None, List(<<>>),
                          List(<<[consumption |-> Num(5000), cost |-> Num(1500)]>>)},
         usage_data \in UsageDataShapes,
         raw_data \in UNION {RawDataOf(u) : u \in UsageDataShapes}}

\* a result whose raw_data is the response its usage_data came from
Consistent(result) == result.raw_data \in RawDataOf(result.usage_data)

\* monthly summaries and the instants they are normalised at
MonthlySummaries ==
    [startDate : {Missing, BadDate} \cup
                   {DateStr(a, h) : a \in BOOLEAN, h \in {0, 12}},
     endDate   : {Missing, BadDate} \cup
                   {DateStr(a, h) : a \in BOOLEAN, h \in {0, 72, 90, 168}}]

Instants == {-30, -1, 0, 23, 24, 36, 60, 72, 96, 167, 200}

\* the calls of a run
Calls ==
    {[fn |-> "get_usage_data", electricity_usage |-> u, hourly |-> h,
      monthly |-> m] :
         u \in UsageObjects, h \in HourlyResults,
         m \in {None, Result(Num(300000), List(<<>>),
                             List(<<Period(1)>>), Missing)}}
    \cup {[fn |-> "_execute_api_call_with_fallback", result |-> r] :
              r \in {x \in MonthlyResults : Consistent(x)}}
    \cup {[fn |-> "_normalize_electricity_summary_data",
           monthly_summary |-> ms, now |-> t] :
              ms \in MonthlySummaries, t \in Instants}

Returns(value) == [status |-> "returned", value |-> value]

----------------------------------------------------------------------------
(* One call is made and returns *)

\* get_usage_data from the ElectricityUsage object to its return
GetUsageDataNormalizes ==
    /\ call.fn = "get_usage_data"
    /\ returned = Pending
    /\ returned' = Returns(normalized_data(call.electricity_usage,
                                           call.hourly, call.monthly))
    /\ UNCHANGED <<call, storeVars, apiVars, entryVars, updateVars, hostVars>>

\* _execute_api_call_with_fallback for the monthly endpoint
ExecuteMonthlyCall ==
    /\ call.fn = "_execute_api_call_with_fallback"
    /\ returned = Pending
    /\ returned' = Returns(_execute_api_call_with_fallback(
                               call.result, "monthly_usage",
                               "monthly_usage_history"))
    /\ UNCHANGED <<call, storeVars, apiVars, entryVars, updateVars, hostVars>>

\* _normalize_electricity_summary_data: its billing_progress_percent
NormalizeSummary ==
    /\ call.fn = "_normalize_electricity_summary_data"
    /\ returned = Pending
    /\ returned' = Returns(billing_progress_percent(call.monthly_summary,
                                                    call.now))
    /\ UNCHANGED <<call, storeVars, apiVars, entryVars, updateVars, hostVars>>

InitCalls ==
    /\ StoreInit
    /\ varies = "daily"
    /\ ApiInit
    /\ upstream = "healthy"
    /\ EntryLoaded
    /\ UpdateIdle
    /\ HostIdle
    /\ call \in Calls
    /\ returned = Pending

NextCalls ==
    \/ GetUsageDataNormalizes
    \/ ExecuteMonthlyCall
    \/ NormalizeSummary

SpecCalls == InitCalls /\ [][NextCalls]_vars

(***************************************************************************)
(* C27  Zero/empty fallback in normalization.                              *)
(***************************************************************************)
NumericMetrics ==
    {"total_usage", "energy_usage", "current_bill", "latest_daily_usage",
     "latest_daily_cost", "average_temperature", "current_temperature",
     "hourly_usage", "monthly_usage"}

HistoryKeys ==
    {"daily_usage_history", "temperature_history", "hourly_usage_history",
     "monthly_usage_history"}

\* C27: whenever the usage fetch returns a result object, the normalized
\* mapping has every numeric usage metric with a number (zero when the
\* upstream field is missing or null) and every history key with a
\* sequence; no metric is null or absent.
C27_ZeroEmptyFallback ==
    (call.fn = "get_usage_data" /\ returned # Pending) =>
        /\ \A k \in NumericMetrics :
              /\ k \in DOMAIN returned.value
              /\ returned.value[k].py = "num"
        /\ \A k \in HistoryKeys :
              /\ k \in DOMAIN returned.value
              /\ returned.value[k].py = "list"


(***************************************************************************)
(* C28  Monthly payload selection.                                         *)
(***************************************************************************)
\* the non-empty series labelled actual in the 'usage' array of a dict
ActualSeriesOf(d) ==
    IF d # Missing /\ d.py = "dict" /\ d.usage # Missing /\ d.usage.py = "list"
    THEN {d.usage.items[i].data :
              i \in {j \in 1..Len(d.usage.items) :
                       /\ d.usage.items[j].label = "actual"
                       /\ d.usage.items[j].data # Missing
                       /\ Truthy(d.usage.items[j].data)}}
    ELSE {}

\* the billing-period data a monthly result holds: usage_data as a list of
\* entries that carry invoiceFrom and invoiceTo, and the actual series
BillingPeriodData(result) ==
    (IF /\ result.usage_data # Missing
        /\ result.usage_data.py = "list"
        /\ result.usage_data.items # <<>>
        /\ \A i \in 1..Len(result.usage_data.items) :
              /\ result.usage_data.items[i].invoiceFrom # Missing
              /\ result.usage_data.items[i].invoiceTo # Missing
     THEN {result.usage_data} ELSE {})
    \cup ActualSeriesOf(result.usage_data)
    \cup ActualSeriesOf(result.raw_data)
    \cup ActualSeriesOf(result.data)

\* has the result a non-empty daily_usage
HasDailyUsage(result) ==
    result.daily_usage # Missing /\ Truthy(result.daily_usage)

MonthlyReturned ==
    call.fn = "_execute_api_call_with_fallback" /\ returned # Pending

SummaryReturned ==
    /\ call.fn = "_normalize_electricity_summary_data"
    /\ returned # Pending
    /\ call.monthly_summary.startDate # Missing
    /\ call.monthly_summary.endDate # Missing

\* both dates parse and can be subtracted from each other
DatesUsable ==
    /\ call.monthly_summary.startDate.parses
    /\ call.monthly_summary.endDate.parses
    /\ call.monthly_summary.startDate.aware = call.monthly_summary.endDate.aware

TotalDays ==
    (call.monthly_summary.endDate.hours
         - call.monthly_summary.startDate.hours) \div 24

ElapsedDays == (call.now - call.monthly_summary.startDate.hours) \div 24

\* elapsed_days/total_days*100 clamped into [0, 100], in 1/10 percent and
\* multiplied by total_days
ClampedProgressTimesTotal ==
    IF ElapsedDays <= 0 THEN 0
    ELSE IF ElapsedDays >= TotalDays THEN 1000 * TotalDays
    ELSE 1000 * ElapsedDays

----------------------------------------------------------------------------
(* Reading a sensor's attributes: MercurySensor.extra_state_attributes     *)
(* (sensor.py lines 194-353), by the keys of coordinator.data              *)

CHART_DATA_SENSORS == {"energy_usage", "total_usage", "current_bill"}

UnboundLocalError(name) ==
    [status |-> "raised", exception |-> "UnboundLocalError", name |-> name]

\* the keys of the attributes the property returns for the sensor, or the
\* exception it raises: daily_history and hourly_history are bound only
\* under 'if ... in self.coordinator.data' and are read in the else branch
\* of the same test
extra_state_attributes(sensor_type, mapping) ==
    LET keys == combined_data_keys(mapping)
        has_daily_key == "daily_usage_history" \in keys
                            \/ "extended_daily_usage_history" \in keys
        has_temp_key == "temperature_history" \in keys
                            \/ "extended_temperature_history" \in keys
        has_hourly_key == "hourly_usage_history" \in keys
                            \/ "extended_hourly_usage_history" \in keys
        chart ==
            (IF has_daily_key THEN {"data_source", "daily_usage_history"} ELSE {})
            \cup (IF has_temp_key
                  THEN {"temperature_history", "recent_temperatures"} ELSE {})
            \cup (IF has_hourly_key
                  THEN {"data_source_hourly", "hourly_usage_history"} ELSE {})
            \cup (IF "monthly_usage_history" \in keys
                  THEN {"monthly_usage_history", "monthly_data_points"} ELSE {})
        common ==
            (keys \cap {"bill_statement_details", "monthly_usage_cost",
                        "monthly_usage_consumption", "monthly_days_remaining",
                        "monthly_billing_start_date", "monthly_billing_end_date",
                        "monthly_billing_progress_percent",
                        "monthly_projected_bill_note", "content_disclaimer_text",
                        "content_monthly_summary_description", "last_updated"})
            \cup (IF /\ sensor_type \in {"due_date", "bill_due_date", "bill_bill_date",
                                         "monthly_billing_start_date",
                                         "monthly_billing_end_date"}
                     /\ sensor_type \in keys
                  THEN {"formatted_date", "date_nz_format"} ELSE {})
    IN IF keys = {} THEN [status |-> "returned", attributes |-> {}]
       ELSE IF sensor_type \notin CHART_DATA_SENSORS
       THEN [status |-> "returned", attributes |-> common]
       ELSE IF ~has_daily_key THEN UnboundLocalError("daily_history")
       ELSE IF ~has_hourly_key THEN UnboundLocalError("hourly_history")
       ELSE [status |-> "returned", attributes |-> chart \cup common]

(***************************************************************************)
(* C30  Chart-sensor attribute reads never fail.                           *)
(***************************************************************************)
\* C30: for every mapping the coordinator has published, reading
\* extra_state_attributes of a chart sensor returns a mapping without
\* raising.
C30_ChartAttributesNeverFail ==
    (pc = "idle" /\ published_cycle > 0) =>
        \A sensor_type \in CHART_DATA_SENSORS :
            extra_state_attributes(sensor_type, data).status = "returned"

----------------------------------------------------------------------------
(* C31  A malformed window leaves the store unchanged *)

\* a cycle runs with a daily or temperature window that has a record
\* without one of the keys the daily store reads
MalformedWindow ==
    /\ pc # "idle"
    /\ combined_data.has_daily
    /\ DailyKeyError(combined_data)

C31_DocumentUntouched ==
    MalformedWindow =>
        /\ mercury_daily' = mercury_daily
        /\ pc = "store_daily" => pc' = "store_hourly"
        /\ pc = "return" => pc' = "idle" /\ published_cycle' = cycle

\* C31: when a record of the fresh daily window lacks date, consumption or
\* cost, or a temperature record lacks date or temp, no step of the cycle
\* changes the daily document (none of the window's records is persisted),
\* the daily store hands over to the hourly store, and the cycle publishes.
C31_MalformedWindowLeavesStore ==
    [][C31_DocumentUntouched]_vars /\ [](pc = "idle" => published_cycle = cycle)

\* the daily store has given up on a window that also holds a well-formed
\* record of a day the stored document, written by an earlier cycle, lacks
C31_Witness ==
    /\ MalformedWindow
    /\ pc = "store_hourly"
    /\ mercury_daily.kind = "json"
    /\ DOMAIN mercury_daily.daily_usage # {}
    /\ \E i \in 1..Len(combined_data.daily_usage_history) :
          LET day == combined_data.daily_usage_history[i]
          IN /\ {"date", "consumption", "cost"} \subseteq DOMAIN day
             /\ date_key(day.date) \notin DOMAIN mercury_daily.daily_usage

----------------------------------------------------------------------------
(* C32  Frame conditions of the two stores *)

DailyStorePositions == {"store_daily", "write_daily"}

HourlyStorePositions == {"store_hourly", "write_hourly"}

\* what the running daily store found for 'temperature' in the document
StoredTemperature ==
    IF mercury_daily.kind = "json" THEN mercury_daily.temperature ELSE EmptyMap

C32_StepsKeepFrame ==
    /\ pc # "idle" /\ ~combined_data.has_daily => mercury_daily' = mercury_daily
    /\ pc # "idle" /\ ~combined_data.has_hourly => mercury_hourly' = mercury_hourly
    /\ pc \in DailyStorePositions =>
          /\ mercury_hourly' = mercury_hourly
          /\ existing_hourly_data' = existing_hourly_data
    /\ pc \in HourlyStorePositions =>
          /\ mercury_daily' = mercury_daily
          /\ existing_daily_data' = existing_daily_data
          /\ existing_temp_data' = existing_temp_data
    /\ pc = "store_daily" /\ pc' = "write_daily" /\ ~combined_data.has_temp =>
          json_data'.temperature = StoredTemperature

\* the daily store of a cycle without 'temperature_history' has written
C32_TemperatureKept ==
    /\ pc = "store_hourly"
    /\ combined_data.has_daily
    /\ ~combined_data.has_temp
    => /\ mercury_daily.kind = "json"
       /\ mercury_daily.temperature = existing_temp_data

\* C32: a cycle without the daily_usage_history key leaves the daily
\* document as it is and one without the hourly_usage_history key the hourly
\* document; the daily store neither loads nor writes the hourly document
\* and the hourly store neither loads nor writes the daily one; a daily
\* merge without temperature_history writes the stored temperature map back
\* unchanged.
C32_StoreFrameConditions == [][C32_StepsKeepFrame]_vars /\ []C32_TemperatureKept

\* a daily store without temperature_history has rewritten a document that
\* held temperatures
C32_Witness ==
    /\ pc = "store_hourly"
    /\ combined_data.has_daily
    /\ ~combined_data.has_temp
    /\ existing_temp_data # EmptyMap
    /\ mercury_daily.kind = "json"
    /\ mercury_daily.temperature = existing_temp_data
    /\ DOMAIN mercury_daily.daily_usage # DOMAIN existing_daily_data

----------------------------------------------------------------------------
(* Two config entries in one host.  async_setup_entry (__init__.py lines   *)
(* 80-97) builds one MercuryDataUpdateCoordinator per entry; each runs its *)
(* own cycles on the event loop, and every coordinator names the same two  *)
(* files, www/mercury_daily.json and www/mercury_hourly.json (coordinator  *)
(* .py lines 253 and 131).  A store awaits the executor three times:       *)
(* ensure_www_dir, the load and write_json; between two awaits of one      *)
(* coordinator the steps of the other may run.                             *)

Accounts == {"first", "second"}

\* what get_usage_data of an account can return: its own records
AccountUsage(account) ==
    IF account = "first"
    THEN {Usage(<<DayRec(day, 0, 5000, 1500, FALSE, FALSE)>>, <<>>,
                <<HourRec(HKey(FirstNow - 1, "Z"), MissingKey, 500, 150)>>) :
             day \in {1, 2}}
    ELSE {Usage(<<DayRec(day, 0, 7000, 2100, FALSE, FALSE)>>, <<>>,
                <<HourRec(HKey(FirstNow - 2, "Z"), MissingKey, 700, 210)>>) :
             day \in {2, 3}}

\* a coordinator between two cycles; merged is the history of the dates its
\* completed daily stores have merged and written
CoordinatorAtRest ==
    [pc |-> "idle", cycle |-> 0, combined_data |-> NoData,
     existing_daily_data |-> EmptyMap, existing_temp_data |-> EmptyMap,
     existing_hourly_data |-> EmptyMap, json_data |-> NoFile,
     data |-> NoData, merged |-> {}]

\* the step of one coordinator: its fields change, the other waits
Steps(account, from, next) ==
    /\ account \in DOMAIN coordinators
    /\ coordinators[account].pc = from
    /\ coordinators' = [coordinators EXCEPT ![account] = next]
    /\ UNCHANGED <<pc, cycle, now_utc, combined_data, existing_daily_data,
                   existing_temp_data, existing_hourly_data, json_data, data,
                   published_cycle, varies, all_fetched>>
    /\ UNCHANGED <<apiVars, entryVars, updateVars, callVars, lovelace, registrations>>

HostFetches(account) ==
    /\ account \in DOMAIN coordinators
    /\ coordinators[account].cycle < MaxCycles
    /\ \E usage_data \in AccountUsage(account) :
          Steps(account, "idle",
                [coordinators[account] EXCEPT
                    !.pc = "store_daily", !.cycle = @ + 1,
                    !.combined_data = usage_data])
    /\ UNCHANGED <<mercury_daily, mercury_hourly>>

\* load_existing_data in the executor (lines 259-269)
HostDailyLoads(account) ==
    /\ Steps(account, "store_daily",
             [coordinators[account] EXCEPT
                 !.pc = "open_daily",
                 !.existing_daily_data = load_existing_data(mercury_daily)[1],
                 !.existing_temp_data = load_existing_data(mercury_daily)[2]])
    /\ UNCHANGED <<mercury_daily, mercury_hourly>>

\* the merge on the event loop and open(json_file, 'w') in the executor
HostDailyOpens(account) ==
    /\ Steps(account, "open_daily",
             [coordinators[account] EXCEPT
                 !.pc = "write_daily",
                 !.json_data = DailyJson(coordinators[account].existing_daily_data,
                                         coordinators[account].existing_temp_data,
                                         coordinators[account].combined_data)])
    /\ mercury_daily' = Truncated
    /\ UNCHANGED mercury_hourly

HostDailyWrites(account) ==
    /\ Steps(account, "write_daily",
             [coordinators[account] EXCEPT
                 !.pc = "store_hourly",
                 !.json_data = NoFile,
                 !.merged = @ \cup WindowKeys(coordinators[account].combined_data.daily_usage_history)])
    /\ mercury_daily' = coordinators[account].json_data
    /\ UNCHANGED mercury_hourly

HostHourlyLoads(account) ==
    /\ Steps(account, "store_hourly",
             [coordinators[account] EXCEPT
                 !.pc = "open_hourly",
                 !.existing_hourly_data = load_existing_hourly_data(mercury_hourly)])
    /\ UNCHANGED <<mercury_daily, mercury_hourly>>

HostHourlyOpens(account) ==
    /\ Steps(account, "open_hourly",
             [coordinators[account] EXCEPT
                 !.pc = "write_hourly",
                 !.json_data = HourlyJson(coordinators[account].existing_hourly_data,
                                          coordinators[account].combined_data, now_utc)])
    /\ mercury_hourly' = Truncated
    /\ UNCHANGED mercury_daily

HostHourlyWrites(account) ==
    /\ Steps(account, "write_hourly",
             [coordinators[account] EXCEPT !.pc = "load", !.json_data = NoFile])
    /\ mercury_hourly' = coordinators[account].json_data
    /\ UNCHANGED mercury_daily

\* the two loaders read the files back and the cycle returns (lines 79-111)
HostReturns(account) ==
    /\ Steps(account, "load",
             [CoordinatorAtRest EXCEPT
                 !.cycle = coordinators[account].cycle,
                 !.merged = coordinators[account].merged,
                 !.data =
                    IF mercury_daily.kind = "json"
                    THEN [coordinators[account].combined_data EXCEPT
                            !.has_extended = TRUE,
                            !.extended_daily_usage_history =
                                extended_daily_usage_history(mercury_daily.daily_usage),
                            !.total_historical_days =
                                Len(extended_daily_usage_history(mercury_daily.daily_usage))]
                    ELSE coordinators[account].combined_data])
    /\ UNCHANGED <<mercury_daily, mercury_hourly>>

InitHost ==
    /\ StoreAtRest
    /\ varies = "daily"
    /\ ApiInit
    /\ upstream = "healthy"
    /\ EntryLoaded
    /\ UpdateIdle
    /\ CallIdle
    /\ coordinators = [account \in Accounts |-> CoordinatorAtRest]
    /\ lovelace = <<>>
    /\ registrations = <<>>

NextHost ==
    \E account \in Accounts :
        \/ HostFetches(account)
        \/ HostDailyLoads(account)
        \/ HostDailyOpens(account)
        \/ HostDailyWrites(account)
        \/ HostHourlyLoads(account)
        \/ HostHourlyOpens(account)
        \/ HostHourlyWrites(account)
        \/ HostReturns(account)

SpecHost == InitHost /\ [][NextHost]_vars

----------------------------------------------------------------------------
(* C33  Exclusive ownership of the durable documents *)

\* the stored entries the daily windows of an account can give
FetchedBy(account) ==
    {day_info(usage.daily_usage_history[1]) : usage \in AccountUsage(account)}

\* what a coordinator loaded for its merge, and what it published of the
\* stored days, came from its own account
ReadsOwnRecords(account) ==
    /\ \A k \in DOMAIN coordinators[account].existing_daily_data :
          coordinators[account].existing_daily_data[k] \in FetchedBy(account)
    /\ \A i \in 1..Len(coordinators[account].data.extended_daily_usage_history) :
          coordinators[account].data.extended_daily_usage_history[i].consumption
              \in {r.consumption : r \in FetchedBy(account)}

\* with every cycle completed, the days a completed store merged and wrote
\* are in the document
NoLostUpdate ==
    (\A account \in Accounts : coordinators[account].pc = "idle")
        /\ mercury_daily.kind = "json"
    => \A account \in Accounts :
          coordinators[account].merged \subseteq DOMAIN mercury_daily.daily_usage

\* C33: with the coordinators of two accounts in one host, whose cycles
\* interleave at the awaits of the executor, no coordinator loads, merges or
\* publishes a record fetched for the other account, and no day that a
\* completed cycle merged and wrote is missing from the document afterwards.
C33_ExclusiveOwnership ==
    /\ \A account \in Accounts : ReadsOwnRecords(account)
    /\ NoLostUpdate

----------------------------------------------------------------------------
(* Where the keys of the composed mapping come from: the copy of           *)
(* usage_data, then combined_data[f"bill_{key}"] = value for the items of  *)
(* bill_data, then the two update() calls with what the loaders return     *)
(* (coordinator.py lines 57-61, 80-82, 96-98).  A later assignment to a    *)
(* key replaces the earlier one.                                           *)

\* the keys of the mapping _normalize_bill_data returns
BillFields ==
    {"account_id", "balance", "due_amount", "bill_date", "due_date",
     "overdue_amount", "payment_type", "payment_method", "bill_url",
     "balance_status", "statement_total", "electricity_amount", "gas_amount",
     "broadband_amount", "statement_details"}

\* a composition that stores a bill field under its own name
BillKeyUnprefixed(key) == key

\* f"bill_{key}"
bill_key(key) == "bill_" \o key

\* the keys of the mapping load_data of _load_extended_historical_data returns
ExtendedDataKeys ==
    {"extended_daily_usage_history", "extended_temperature_history",
     "total_historical_days"}

\* the keys of the mapping load_data of _load_extended_hourly_data returns
ExtendedHourlyDataKeys ==
    {"extended_hourly_usage_history", "total_historical_hours"}

\* key -> the step of the cycle that assigned it last
key_origins(mapping) ==
    LET usage_data ==
            [k \in (IF mapping.has_metrics THEN UsageMetricKeys ELSE {})
                  \cup (IF mapping.has_daily THEN {"daily_usage_history"} ELSE {})
                  \cup (IF mapping.has_temp THEN {"temperature_history"} ELSE {})
                  \cup (IF mapping.has_hourly THEN UsageCallKeys ELSE {})
                |-> "usage_data"]
        with_bill ==
            IF mapping.has_bill
            THEN [k \in {bill_key(f) : f \in BillFields} |-> "bill_data"] @@ usage_data
            ELSE usage_data
        with_extended ==
            IF mapping.has_extended
            THEN [k \in ExtendedDataKeys |-> "extended_data"] @@ with_bill
            ELSE with_bill
    IN IF mapping.has_extended_hourly
       THEN [k \in ExtendedHourlyDataKeys |-> "extended_hourly_data"] @@ with_extended
       ELSE with_extended

----------------------------------------------------------------------------
(* C34  Key namespaces in composition *)

\* the keys the usage fetch produced are still the usage fetch's
UsageKeysKept(mapping) ==
    /\ mapping.has_metrics =>
          \A k \in UsageMetricKeys : key_origins(mapping)[k] = "usage_data"
    /\ mapping.has_daily => key_origins(mapping)["daily_usage_history"] = "usage_data"
    /\ mapping.has_temp => key_origins(mapping)["temperature_history"] = "usage_data"
    /\ mapping.has_hourly =>
          \A k \in UsageCallKeys : key_origins(mapping)[k] = "usage_data"

\* every bill field is under 'bill_' + its name, and under no other key
BillUnderPrefix(mapping) ==
    mapping.has_bill =>
        /\ \A f \in BillFields :
              /\ ("bill_" \o f) \in DOMAIN key_origins(mapping)
              /\ key_origins(mapping)["bill_" \o f] = "bill_data"
        /\ {k \in DOMAIN key_origins(mapping) : key_origins(mapping)[k] = "bill_data"}
              = BillPrefixed

\* the keys that come from the two files
StoreKeysOnly(mapping) ==
    {k \in DOMAIN key_origins(mapping) :
        key_origins(mapping)[k] \in {"extended_data", "extended_hourly_data"}}
      = (IF mapping.has_extended THEN ExtendedDataKeys ELSE {})
            \cup (IF mapping.has_extended_hourly THEN ExtendedHourlyDataKeys ELSE {})

C34_KeysAtEveryStep ==
    /\ DOMAIN key_origins(combined_data) = combined_data_keys(combined_data)
    /\ UsageKeysKept(combined_data)
    /\ BillUnderPrefix(combined_data)
    /\ StoreKeysOnly(combined_data)

\* from the store to the return the fresh windows stay what was fetched
C34_FreshWindowsStay ==
    pc \in StorePositions /\ pc' \in StorePositions =>
        /\ combined_data'.daily_usage_history = combined_data.daily_usage_history
        /\ combined_data'.temperature_history = combined_data.temperature_history
        /\ combined_data'.hourly_usage_history = combined_data.hourly_usage_history
        /\ combined_data'.has_daily = combined_data.has_daily
        /\ combined_data'.has_temp = combined_data.has_temp
        /\ combined_data'.has_hourly = combined_data.has_hourly
        /\ combined_data'.has_metrics = combined_data.has_metrics
        /\ combined_data'.has_bill = combined_data.has_bill

\* C34: every bill-summary field f is in the composed mapping under the key
\* 'bill_' + f and under no other; the bill fields and the extended history
\* replace or remove no key of the usage fetch, and the fresh windows stay
\* what was fetched until the return; the two files contribute exactly
\* extended_daily_usage_history, extended_temperature_history,
\* total_historical_days, extended_hourly_usage_history and
\* total_historical_hours.
C34_KeyNamespaces == []C34_KeysAtEveryStep /\ [][C34_FreshWindowsStay]_vars

\* a cycle at its return with usage metrics, bill fields and both snapshots
C34_Witness ==
    /\ pc = "return"
    /\ combined_data.has_metrics
    /\ combined_data.has_bill
    /\ combined_data.has_extended
    /\ combined_data.has_extended_hourly
    /\ key_origins(combined_data)["bill_due_date"] = "bill_data"
    /\ key_origins(combined_data)["total_usage"] = "usage_data"
    /\ key_origins(combined_data)["total_historical_days"] = "extended_data"

----------------------------------------------------------------------------
(* C35  One record per calendar day within a window *)

\* the daily store of the running cycle has merged a well-formed window
WindowMerged == DailyMerged /\ ~DailyKeyError(combined_data)

\* the record of the window that comes last among those of calendar day k
IsLastOfDay(window, i, k) ==
    /\ window[i].date[1] = k
    /\ \A j \in (i + 1)..Len(window) : window[j].date[1] # k

C35_LastOfTheDayStored ==
    WindowMerged =>
        LET window == combined_data.daily_usage_history
        IN \A i \in 1..Len(window) :
            LET k == window[i].date[1]
            IN /\ k \in DOMAIN mercury_daily.daily_usage
               /\ Cardinality({n \in 1..Len(mercury_daily.daily_list) :
                                  mercury_daily.daily_list[n].date = k}) = 1
               /\ IsLastOfDay(window, i, k) =>
                     /\ mercury_daily.daily_usage[k].timestamp = window[i].date
                     /\ mercury_daily.daily_usage[k].consumption = window[i].consumption
                     /\ mercury_daily.daily_usage[k].cost = window[i].cost

\* the hourly records of the window whose key is the empty string or absent
Unkeyed(hour) ==
    \/ hour.datetime = EmptyKey
    \/ hour.datetime = MissingKey /\ hour.date \in {MissingKey, EmptyKey}

C35_UnkeyedHoursNotStored ==
    HourlyMerged =>
        LET window == combined_data.hourly_usage_history
            stored == mercury_hourly.hourly_usage
        IN /\ EmptyKey \notin DOMAIN stored
           /\ MissingKey \notin DOMAIN stored
           /\ Cardinality(DOMAIN stored)
                 <= Cardinality(DOMAIN existing_hourly_data)
                      + Cardinality({i \in 1..Len(window) : ~Unkeyed(window[i])})
           /\ \A k \in DOMAIN stored \ DOMAIN existing_hourly_data :
                 \E i \in 1..Len(window) :
                    /\ ~Unkeyed(window[i])
                    /\ stored[k].consumption = window[i].consumption

\* C35: after the merge of a daily window that holds several records of one
\* calendar day (equal first ten characters of date), the store holds one
\* record for that day, the one that comes last in the window; an hourly
\* record whose datetime is the empty string, or is absent with date absent
\* or empty, is not stored.
C35_OneRecordPerDay == C35_LastOfTheDayStored /\ C35_UnkeyedHoursNotStored

\* a window with two records of day 1 at different times has been merged
C35_Witness ==
    /\ WindowMerged
    /\ \E i, j \in 1..Len(combined_data.daily_usage_history) :
          /\ i < j
          /\ combined_data.daily_usage_history[i].date[1] = 1
          /\ combined_data.daily_usage_history[j].date[1] = 1
          /\ combined_data.daily_usage_history[i].date
                # combined_data.daily_usage_history[j].date
          /\ mercury_daily.daily_usage[1].timestamp
                = combined_data.daily_usage_history[j].date

\* an hourly window with a keyed and an unkeyed record has been merged
UnkeyedHourSkipped ==
    /\ HourlyMerged
    /\ \E i, j \in 1..Len(combined_data.hourly_usage_history) :
          /\ Unkeyed(combined_data.hourly_usage_history[i])
          /\ ~Unkeyed(combined_data.hourly_usage_history[j])
    /\ Cardinality(DOMAIN mercury_hourly.hourly_usage) = 1

----------------------------------------------------------------------------
(* C36  Temperature retention *)

\* at most 180 temperatures; after a merge the window's dates that are kept
\* carry the window's last reading, and every date that was dropped is
\* older than every date that was kept
TemperatureBounded ==
    /\ mercury_daily.kind = "json" =>
          Cardinality(DOMAIN mercury_daily.temperature) <= RetentionDays
    /\ WindowMerged /\ combined_data.has_temp =>
          LET window == combined_data.temperature_history
              stored == mercury_daily.temperature
          IN /\ \A i \in 1..Len(window) :
                   (window[i].date[1] \in DOMAIN stored
                        /\ \A j \in (i + 1)..Len(window) :
                               window[j].date[1] # window[i].date[1])
                   => /\ stored[window[i].date[1]].temperature = window[i].temp
                      /\ stored[window[i].date[1]].timestamp = window[i].date
             /\ \A dropped \in ((DOMAIN existing_temp_data)
                                    \cup {window[i].date[1] : i \in 1..Len(window)})
                                 \ DOMAIN stored :
                   \A kept \in DOMAIN stored : dropped < kept

\* every date with a temperature has a usage record
TemperatureHasUsage ==
    mercury_daily.kind = "json" =>
        DOMAIN mercury_daily.temperature \subseteq DOMAIN mercury_daily.daily_usage

\* C36: from an empty store, after any sequence of cycles the persisted
\* temperature collection has at most 180 entries, trimmed oldest date
\* first, a freshly fetched temperature replaces the stored one of the same
\* date, and every date of the temperature collection has a usage record in
\* the daily collection.
C36_TemperatureRetention == TemperatureBounded /\ TemperatureHasUsage

----------------------------------------------------------------------------
(* The state of a sensor entity (sensor.py, MercurySensor.native_value).   *)
(*                                                                         *)
(* coordinator.data is None or a dict from keys to Python values; a date   *)
(* and a datetime are records of their calendar fields.                    *)

\* SENSOR_TYPES[sensor_type]["unit"]
unit(sensor_type) ==
    CASE sensor_type \in {"total_usage", "energy_usage", "latest_daily_usage",
                          "hourly_usage", "monthly_usage",
                          "monthly_usage_consumption"} -> Str("kWh")
      [] sensor_type \in {"current_bill", "latest_daily_cost", "bill_balance",
                          "bill_due_amount", "bill_overdue_amount",
                          "bill_statement_total", "bill_electricity_amount",
                          "bill_gas_amount", "bill_broadband_amount",
                          "weekly_usage_cost", "monthly_usage_cost"} -> Str("$")
      [] sensor_type \in {"average_temperature", "current_temperature"} -> Str("C")
      [] sensor_type \in {"weekly_usage_history", "monthly_days_remaining"}
            -> Str("days")
      [] sensor_type = "monthly_billing_progress_percent" -> Str("%")
      [] sensor_type = "weekly_notes" -> Str("notes")
      [] OTHER -> None

\* the sensors whose device_class is "date"
DateSensors ==
    {"bill_bill_date", "bill_due_date", "weekly_start_date", "weekly_end_date",
     "monthly_billing_start_date", "monthly_billing_end_date"}

\* the sensor types native_value converts to a date
DateConverted ==
    {"due_date", "bill_due_date", "bill_bill_date",
     "monthly_billing_start_date", "monthly_billing_end_date"}

\* the units whose sensors default to 0
ZeroUnits == {Str("kWh"), Str("$"), Str("C"), Str("days"), Str("%")}

Date(year, month, day) ==
    [py |-> "date", year |-> year, month |-> month, day |-> day]

Datetime(year, month, day, hour) ==
    [py |-> "datetime", year |-> year, month |-> month, day |-> day,
     hour |-> hour]

ValueError == [py |-> "exception", exception |-> "ValueError"]

\* text.strip()
strip(text) ==
    CASE text = "  " -> ""
      [] text = " 2024-03-05 " -> "2024-03-05"
      [] OTHER -> text

\* 'T' in text
HasT(text) ==
    text \in {"2024-03-05T00:00:00Z", "2024-12-31T23:30:00+13:00",
              "2024-03-05Tnoon", "Tuesday"}

\* datetime.fromisoformat(text.replace('Z', '+00:00')): the fields are those
\* written in the text, whatever its offset
fromisoformat(text) ==
    CASE text = "2024-03-05T00:00:00Z" -> Datetime(2024, 3, 5, 0)
      [] text = "2024-12-31T23:30:00+13:00" -> Datetime(2024, 12, 31, 23)
      [] text = "2024-03-05" -> Datetime(2024, 3, 5, 0)
      [] OTHER -> ValueError

\* datetime.strptime(text, '%Y-%m-%d')
strptime(text) ==
    IF text = "2024-03-05" THEN Datetime(2024, 3, 5, 0) ELSE ValueError

\* dt.date()
date(dt) == Date(dt.year, dt.month, dt.day)

\* what the try block of the date conversion returns or raises
date_conversion(raw_value) ==
    CASE raw_value.py = "datetime" -> date(raw_value)
      [] raw_value.py = "date" -> raw_value
      [] raw_value.py = "str" /\ strip(raw_value.v) # "" ->
            LET text == strip(raw_value.v)
                dt == IF HasT(text) THEN fromisoformat(text) ELSE strptime(text)
            IN IF dt = ValueError THEN ValueError ELSE date(dt)
      [] OTHER -> None

\* a date conversion without its except clause
DateResultUncaught(raw_value) == date_conversion(raw_value)

\* the date conversion with its except clause: a ValueError gives None
date_result(raw_value) ==
    IF date_conversion(raw_value) = ValueError THEN None
    ELSE date_conversion(raw_value)

\* the default of a sensor without a value
default_value(sensor_type) ==
    IF unit(sensor_type) \in ZeroUnits THEN Num(0) ELSE None

\* bool(coordinator.data)
HasData(mapping) == mapping # None /\ DOMAIN mapping # {}

\* coordinator.data.get(sensor_type)
raw_value(sensor_type, mapping) ==
    IF sensor_type \in DOMAIN mapping THEN mapping[sensor_type] ELSE None

\* MercurySensor.native_value of the sensor of sensor_type over
\* coordinator.data: what the property returns, or the exception it raises
sensor_native_value(sensor_type, mapping) ==
    IF ~HasData(mapping) THEN Returns(default_value(sensor_type))
    ELSE IF raw_value(sensor_type, mapping) = None
    THEN Returns(default_value(sensor_type))
    ELSE IF sensor_type \in DateConverted
    THEN LET date_result_ == date_result(raw_value(sensor_type, mapping))
         IN IF date_result_ = ValueError
            THEN [status |-> "raised", exception |-> "ValueError"]
            ELSE Returns(date_result_)
    ELSE Returns(raw_value(sensor_type, mapping))

\* the keys of a published mapping that are sensor types: the summary
\* sensors (weekly_*, monthly_* but monthly_usage) are never assigned
PublishedSensorKeys ==
    (UsageMetricKeys \cup {"hourly_usage", "monthly_usage", "customer_id"}
        \cup {bill_key(f) : f \in BillFields}) \cap SENSOR_TYPES

\* the values a key of the mapping is given
SensorValues ==
    <<None, Num(0), Num(1234), List(<<>>), Date(2024, 3, 5),
      Datetime(2024, 3, 5, 13), Str(""), Str("  "), Str("2024-03-05"),
      Str(" 2024-03-05 "), Str("2024-03-05T00:00:00Z"),
      Str("2024-12-31T23:30:00+13:00"), Str("05/03/2024"),
      Str("2024-03-05Tnoon"), Str("Tuesday")>>

\* coordinator.data without the sensor's key: no cycle has published, the
\* cycle returned an empty mapping, or the mapping has other keys
Unvalued == <<None, EmptyDict, "last_updated" :> Str("now")>>

\* the state of a sensor is read
NativeValue ==
    /\ call.fn = "native_value"
    /\ returned = Pending
    /\ returned' = sensor_native_value(call.sensor_type, call.mapping)
    /\ UNCHANGED <<call, storeVars, apiVars, entryVars, updateVars, hostVars>>

InitSensors ==
    /\ StoreInit
    /\ varies = "daily"
    /\ ApiInit
    /\ upstream = "healthy"
    /\ EntryLoaded
    /\ UpdateIdle
    /\ HostIdle
    /\ \E s \in SENSOR_TYPES :
          \/ \E i \in 1..Len(Unvalued) :
                call = [fn |-> "native_value", sensor_type |-> s,
                        mapping |-> Unvalued[i]]
          \/ /\ s \in PublishedSensorKeys
             /\ \E i \in 1..Len(SensorValues) :
                   call = [fn |-> "native_value", sensor_type |-> s,
                           mapping |-> (s :> SensorValues[i])
                                       @@ ("last_updated" :> Str("now"))]
    /\ returned = Pending

NextSensors == NativeValue

SpecSensors == InitSensors /\ [][NextSensors]_vars

(***************************************************************************)
(* C37  Sensor defaults when a metric is missing.                          *)
(***************************************************************************)
ValueMissing ==
    /\ call.fn = "native_value"
    /\ returned # Pending
    /\ \/ ~HasData(call.mapping)
       \/ raw_value(call.sensor_type, call.mapping) = None

ValuePresent ==
    /\ call.fn = "native_value"
    /\ returned # Pending
    /\ HasData(call.mapping)
    /\ raw_value(call.sensor_type, call.mapping) # None

\* C37: whenever the coordinator has no data or the published mapping has no
\* value for the sensor's key, native_value is 0 for a sensor whose unit is
\* kWh, $, degrees C, days or % and None for every other sensor; it never
\* raises; when the key has a value, a sensor that is not a date sensor
\* returns it unchanged and a date sensor returns a calendar date or None.
C37_SensorDefaults ==
    /\ (call.fn = "native_value" /\ returned # Pending)
          => returned.status = "returned"
    /\ ValueMissing =>
          returned = Returns(IF unit(call.sensor_type) \in ZeroUnits
                             THEN Num(0) ELSE None)
    /\ (ValuePresent /\ call.sensor_type \notin DateSensors) =>
          returned = Returns(call.mapping[call.sensor_type])
    /\ (ValuePresent /\ call.sensor_type \in DateSensors) =>
          /\ returned.status = "returned"
          /\ returned.value.py \in {"date", "None"}

\* a date sensor was given a text that is no date
C37_Witness ==
    /\ ValuePresent
    /\ call.sensor_type = "bill_due_date"
    /\ call.mapping["bill_due_date"].py = "str"
    /\ call.mapping["bill_due_date"].v = "05/03/2024"
    /\ returned = Returns(None)

----------------------------------------------------------------------------
(* The registration of the card modules as Lovelace resources              *)
(* (frontend/__init__.py), once per async_setup_entry (__init__.py).       *)
(*                                                                         *)
(* A url is its path, as the sequence of its segments, and the parameters  *)
(* of its query string; lovelace is None or the object with resource_mode  *)
(* and the resource collection (loaded, items in the order of creation).   *)

INTEGRATION_VERSION == "1.2.0"

\* f"/api/{DOMAIN}"
URL_BASE == <<"api", "mercury_co_nz">>

JSMODULES ==
    <<[name |-> "Mercury Energy Usage Card",
       filename |-> "energy-usage-card.js", version |-> INTEGRATION_VERSION],
      [name |-> "Mercury Energy Weekly Summary Card",
       filename |-> "energy-weekly-summary-card.js",
       version |-> INTEGRATION_VERSION],
      [name |-> "Mercury Energy Monthly Summary Card",
       filename |-> "energy-monthly-summary-card.js",
       version |-> INTEGRATION_VERSION]>>

\* the number of times a config entry is set up
MaxSetups == 2

ConfigEntries == {"entry_1", "entry_2"}

Url(path, query) == [path |-> path, query |-> query]

\* f"{URL_BASE}/{module['filename']}"
module_url(module) == Url(Append(URL_BASE, module.filename), <<>>)

\* f"{url}?v={module['version']}"
versioned_url(module) ==
    Url(Append(URL_BASE, module.filename),
        <<[param |-> "v", value |-> module.version]>>)

\* url.startswith(URL_BASE)
startswith(url, base) ==
    /\ Len(url.path) >= Len(base)
    /\ SubSeq(url.path, 1, Len(base)) = base

\* _get_path: the url without its query string
_get_path(url) == Url(url.path, <<>>)

\* _get_version: the value of the first v= parameter, "0" without one
_get_version(url) ==
    IF \E i \in 1..Len(url.query) : url.query[i].param = "v"
    THEN url.query[CHOOSE i \in 1..Len(url.query) :
                       /\ url.query[i].param = "v"
                       /\ \A j \in 1..(i - 1) : url.query[j].param # "v"].value
    ELSE "0"

\* the resources of the snapshot whose path is the module's url
matching(existing, module) ==
    SelectSeq(existing, LAMBDA r : _get_path(r.url) = module_url(module))

\* lines 78-107 for one module: the call the loop awaits, if any
awaited(existing, module) ==
    IF matching(existing, module) = <<>>
    THEN [op |-> "async_create_item", url |-> versioned_url(module)]
    ELSE IF _get_version(Head(matching(existing, module)).url) # module.version
    THEN [op |-> "async_update_item",
          id |-> Head(matching(existing, module)).id,
          url |-> versioned_url(module)]
    ELSE [op |-> "none"]

\* the first module from index on for which the loop awaits a call, or 0
first_await(existing, index) ==
    LET waits == {j \in index..Len(JSMODULES) :
                      awaited(existing, JSMODULES[j]).op # "none"}
    IN IF waits = {} THEN 0
       ELSE CHOOSE j \in waits : \A k \in waits : j <= k

\* the collection after the awaited call returned
items_after(items, awaited_call) ==
    CASE awaited_call.op = "async_create_item" ->
            Append(items, [id |-> Len(items) + 1, res_type |-> "module",
                           url |-> awaited_call.url])
      [] awaited_call.op = "async_update_item" ->
            [i \in 1..Len(items) |->
                IF items[i].id = awaited_call.id
                THEN [items[i] EXCEPT !.url = awaited_call.url,
                                      !.res_type = "module"]
                ELSE items[i]]
      [] OTHER -> items

NoTask == [pc |-> "unset", existing |-> <<>>, index |-> 0, errors |-> FALSE,
           setups |-> 0]

\* a step of the registration of one config entry; the others wait
Registers(entry, next) ==
    /\ registrations' = [registrations EXCEPT ![entry] = next]
    /\ UNCHANGED <<storeVars, apiVars, entryVars, updateVars, callVars,
                   coordinators>>

\* the for loop from JSMODULES[index] to its next await, whose call returns
\* or raises, or to its end
RunsLoop(entry, existing, index, errors) ==
    LET j == first_await(existing, index)
        task == [registrations[entry] EXCEPT !.existing = existing,
                                             !.errors = errors]
    IN IF j = 0
       THEN /\ Registers(entry, [task EXCEPT !.pc = "done",
                                             !.index = Len(JSMODULES) + 1])
            /\ UNCHANGED lovelace
       ELSE \/ /\ lovelace' =
                    [lovelace EXCEPT
                        !.items = items_after(@, awaited(existing, JSMODULES[j]))]
               /\ Registers(entry, [task EXCEPT !.pc = "modules",
                                                !.index = j + 1])
            \/ /\ UNCHANGED lovelace
               /\ Registers(entry, [task EXCEPT !.pc = "modules",
                                                !.index = j + 1,
                                                !.errors = TRUE])

\* lines 65-73, then the loop: the snapshot is taken, or listing raises
ListsAndRuns(entry) ==
    \/ RunsLoop(entry,
                SelectSeq(lovelace.items, LAMBDA r : startswith(r.url, URL_BASE)),
                1, registrations[entry].errors)
    \/ /\ Registers(entry, [registrations[entry] EXCEPT !.pc = "done",
                                                       !.errors = TRUE])
       /\ UNCHANGED lovelace

\* async_setup_entry, lines 75-78: async_register returns at once, or the
\* task is created
AsyncRegister(entry) ==
    /\ registrations[entry].pc = "unset"
    /\ registrations[entry].setups < MaxSetups
    /\ Registers(entry,
                 [NoTask EXCEPT
                    !.pc = IF lovelace = None \/ lovelace.resource_mode # "storage"
                           THEN "returned" ELSE "created",
                    !.setups = registrations[entry].setups + 1])
    /\ UNCHANGED lovelace

\* the task starts: it awaits async_load of a collection not loaded, or
\* lists and runs its loop
TaskStarts(entry) ==
    /\ registrations[entry].pc = "created"
    /\ IF ~lovelace.loaded
       THEN /\ lovelace' = [lovelace EXCEPT !.loaded = TRUE]
            /\ Registers(entry, [registrations[entry] EXCEPT !.pc = "loaded"])
       ELSE ListsAndRuns(entry)

\* async_load returned
TaskLoaded(entry) ==
    /\ registrations[entry].pc = "loaded"
    /\ ListsAndRuns(entry)

\* the awaited call of the loop returned
TaskResumes(entry) ==
    /\ registrations[entry].pc = "modules"
    /\ RunsLoop(entry, registrations[entry].existing,
                registrations[entry].index, registrations[entry].errors)

\* the config entry is reloaded
Reloads(entry) ==
    /\ registrations[entry].pc \in {"done", "returned"}
    /\ registrations[entry].setups < MaxSetups
    /\ Registers(entry, [registrations[entry] EXCEPT !.pc = "unset"])
    /\ UNCHANGED lovelace

\* a resource of the collection, by what its url is
Resource(id, url) == [id |-> id, res_type |-> "module", url |-> url]

\* the url a card module is registered under before the first setup
StoredUrl(module, stored) ==
    CASE stored = "unversioned" -> module_url(module)
      [] stored = "outdated" ->
            Url(Append(URL_BASE, module.filename),
                <<[param |-> "v", value |-> "1.1.0"]>>)
      [] OTHER -> versioned_url(module)

\* the collection before the first setup: another card's resource, then the
\* card modules that stored does not leave out
StoredItems(stored) ==
    LET other == Url(<<"hacsfiles", "other-card.js">>, <<>>)
        present == SelectSeq([j \in 1..Len(JSMODULES) |-> j],
                             LAMBDA j : stored[j] # "absent")
    IN [i \in 1..(Len(present) + 1) |->
           IF i = 1 THEN Resource(1, other)
           ELSE Resource(i, StoredUrl(JSMODULES[present[i - 1]],
                                      stored[present[i - 1]]))]

InitRegister ==
    /\ StoreAtRest
    /\ varies = "daily"
    /\ ApiInit
    /\ upstream = "healthy"
    /\ EntryLoaded
    /\ UpdateIdle
    /\ CallIdle
    /\ coordinators = <<>>
    /\ \/ lovelace = None
       \/ \E mode \in {"storage", "yaml"}, loaded \in BOOLEAN :
          \E stored \in [1..Len(JSMODULES) ->
                            {"absent", "unversioned", "outdated", "current"}] :
             lovelace = [resource_mode |-> mode, loaded |-> loaded,
                         items |-> StoredItems(stored)]
    /\ registrations = [entry \in ConfigEntries |-> NoTask]

NextRegister ==
    \E entry \in ConfigEntries :
        \/ AsyncRegister(entry)
        \/ TaskStarts(entry)
        \/ TaskLoaded(entry)
        \/ TaskResumes(entry)
        \/ Reloads(entry)

SpecRegister == InitRegister /\ [][NextRegister]_vars

(***************************************************************************)
(* C38  Idempotent card-resource reconciliation.                           *)
(***************************************************************************)
\* the resources of the collection whose path is the module's url
ResourcesOf(module) ==
    matching(lovelace.items, module)

\* the module has exactly one resource, of the integration version
Reconciled(module) ==
    /\ Len(ResourcesOf(module)) = 1
    /\ _get_version(ResourcesOf(module)[1].url) = INTEGRATION_VERSION

CompletedWithoutErrors(entry) ==
    /\ registrations[entry].pc = "done"
    /\ ~registrations[entry].errors

\* a completed task leaves every module with its one resource
EveryModuleReconciled ==
    (\E entry \in ConfigEntries : CompletedWithoutErrors(entry)) =>
        \A j \in 1..Len(JSMODULES) : Reconciled(JSMODULES[j])

\* no module has two resources
NoDuplicateResource ==
    lovelace \notin {None, <<>>} =>
        \A j \in 1..Len(JSMODULES) : Len(ResourcesOf(JSMODULES[j])) <= 1

\* once every module is reconciled the collection does not change
ReconciledStays ==
    (/\ lovelace \notin {None, <<>>}
     /\ \A j \in 1..Len(JSMODULES) : Reconciled(JSMODULES[j]))
    => lovelace'.items = lovelace.items

\* C38: after a registration task completed without errors every card
\* module of JSMODULES has exactly one resource whose path is its url and
\* whose version is the integration version; registering again, also by two
\* tasks of two config entries that interleave at their awaits, creates no
\* duplicate resource and changes nothing.
C38_IdempotentReconciliation ==
    /\ [](EveryModuleReconciled /\ NoDuplicateResource)
    /\ [][ReconciledStays]_vars

\* a task that runs while no other one is between its start and its end
Alone(entry) ==
    \A other \in ConfigEntries \ {entry} :
        registrations[other].pc \in {"unset", "done", "returned"}

\* registrations one after the other: the same actions, one task at a time
NextRegisterInTurn ==
    \E entry \in ConfigEntries :
        /\ Alone(entry)
        /\ \/ AsyncRegister(entry)
           \/ TaskStarts(entry)
           \/ TaskLoaded(entry)
           \/ TaskResumes(entry)
           \/ Reloads(entry)

SpecRegisterInTurn == InitRegister /\ [][NextRegisterInTurn]_vars

(***************************************************************************)
(* C39  Adapter session invariant.                                         *)
(***************************************************************************)
\* the flag is set only with a client
FlagImpliesClient == authenticated => client # "None"

\* authenticate() returned True exactly when it left the flag set
ReturnsTheFlag ==
    auth_trace.called =>
        /\ auth_trace.result.success = auth_trace.result.authenticated
        /\ auth_trace.result.authenticated = authenticated

\* the step is the except clause of a fetch operation that saw an expiry
\* and re-authenticates
Reauthenticates == reauthentications' = reauthentications + 1

\* the re-authentication found the flag cleared, called the constructor and,
\* when that returned, login of the new client; a failed one leaves the
\* flag cleared
FreshLogin ==
    Reauthenticates =>
        /\ auth_trace'.called
        /\ ~auth_trace'.pre_authenticated
        /\ auth_trace'.result.constructed = 1
        /\ auth_trace'.login # "construct_raises" =>
              auth_trace'.result.logged_in = 1
        /\ auth_trace'.result.success => client' = "logged_in"
        /\ ~auth_trace'.result.success => ~authenticated'

\* a fetch operation entered with the flag cleared calls authenticate()
EntryAuthenticates ==
    (/\ api_pc \in {"usage_enter", "bill_enter", "summary_enter"}
     /\ ~authenticated
     /\ api_pc' # api_pc)
    => /\ auth_trace'.called
       /\ auth_trace'.result.constructed = 1

\* C39: whenever an adapter operation has returned, the authenticated flag
\* being true implies that a client object is present; authenticate()
\* returns true exactly when it leaves the flag true; every detected token
\* expiry clears the flag before the re-authentication, which therefore logs
\* in afresh with a new client instead of taking the already-authenticated
\* shortcut; and a failed re-authentication leaves the flag false, so that
\* the next fetch operation authenticates again.
C39_SessionInvariant ==
    /\ [](FlagImpliesClient /\ ReturnsTheFlag)
    /\ [][FreshLogin /\ EntryAuthenticates]_vars

\* get_usage_data saw an expiry and its re-authentication failed; then
\* get_bill_summary found the flag cleared and authenticated again
C39_Witness ==
    /\ operation.name = "get_bill_summary"
    /\ operation.reauthentications = 0
    /\ cycle_trace.expiry_seen
    /\ reauthentications = 1
    /\ usage_returned = "empty"
    /\ auth_trace.called
    /\ ~auth_trace.pre_authenticated
    /\ auth_trace.result.constructed = 1
    /\ authenticated
    /\ client = "logged_in"

====
